---- MODULE Spec2Model ----
(***************************************************************************)
(* A model of the iroh DNS server's zone authority (NodeAuthority), its    *)
(* durable signed-packet store (SignedPacketStore) and the name resolution *)
(* that answers DNS queries from per-key pkarr zones.                      *)
(*                                                                         *)
(* Names are sequences of labels, leftmost label first; the root name is   *)
(* the empty sequence.  A signed packet is a record of its public key, its *)
(* timestamp, its inner DNS packet (body) and whether its signature        *)
(* verifies under its key.                                                 *)
(***************************************************************************)
EXTENDS Integers, Sequences, FiniteSets, TLC

\* Largest packet timestamp of the packet universe.
MaxTs == 2
\* Number of upsert_pkarr invocations (each runs once, they may overlap).
NumCalls == 2
\* Number of counted store operations when the store is driven directly.
MaxStoreOps == 3
\* HTTP requests per behaviour.
MaxReqs == 4
\* The last second of the rate limiter's clock.
MaxTime == 5

VARIABLES
    all_origins,   \* NodeAuthority.all_origins: primary origin first
    zones,         \* NodeAuthority.zones: public key -> PkarrZone (or NoZone)
    store,         \* the table of SignedPacketStore: public key -> row (or NoRow)
    calls,         \* the invocations of upsert_pkarr and where each stands
    metrics,       \* the publish and store counters of Metrics
    query,         \* the DNS request served last and its response
    sret,          \* the store operation called last and what it returned
    inner,         \* IrohAuthority.inner: the records of the HTTP-fed zone
    limiter,       \* the rate limiter's state: client IP -> arrival time
    now,           \* the clock of the rate limiter, in seconds
    puts,          \* the PUT requests so far: client, time, limited or not
    resp,          \* the HTTP request served last and its response
    config,        \* Config: which of http, https and metrics are configured
    tasks,         \* main's JoinSet: task -> where it stands and its result
    listeners,     \* the JoinSet of http::serve: listener -> where it stands
    sweeper,       \* the clean-up thread of the rate limiter
    token,         \* the root CancellationToken: cancelled or not
    final_res,     \* main's final_res: "ok" or the task whose error it holds
    main_pc,       \* main: joining its tasks, or returned
    announce,      \* a node announce on its way through a signed packet
    iter,          \* an iteration over the store: its snapshot and its items
    upd            \* the DNS UPDATE message served last and its response

httpvars == <<inner, limiter, now, puts, resp>>

mainvars == <<config, tasks, listeners, sweeper, token, final_res, main_pc>>

restvars == <<mainvars, announce, iter, upd>>

vars == <<all_origins, zones, store, calls, metrics, query, sret,
          inner, limiter, now, puts, resp,
          config, tasks, listeners, sweeper, token, final_res, main_pc,
          announce, iter, upd>>

----------------------------------------------------------------------------
(* Keys, labels and names *)

Keys == {"k1", "k2"}

\* PublicKey::to_z32: the z-base-32 label of a key.
to_z32(k) == IF k = "k1" THEN "z32k1" ELSE "z32k2"

\* ASCII lower-casing of a label (the labels of this model that hold
\* upper-case letters are listed; every other label is lower-case already).
Lower(l) ==
    CASE l = "A" -> "a"
      [] l = "_Iroh_Node" -> "_iroh_node"
      [] OTHER -> l

\* Name -> LowerName.
LowerName(n) == [i \in DOMAIN n |-> Lower(n[i])]

Reverse(s) == [i \in 1..Len(s) |-> s[Len(s) + 1 - i]]

NoKey == "nokey"

\* pkarr::PublicKey::try_from(&str): the key a z32 label decodes to, or NoKey.
PublicKey_try_from(l) ==
    IF \E k \in Keys : to_z32(k) = l
    THEN CHOOSE k \in Keys : to_z32(k) = l
    ELSE NoKey

\* Name::zone_of: case-insensitively, every label of origin is the label of
\* name at the same distance from the root.
zone_of(origin, name) ==
    /\ Len(origin) <= Len(name)
    /\ \A i \in 1..Len(origin) :
          Lower(Reverse(origin)[i]) = Lower(Reverse(name)[i])

----------------------------------------------------------------------------
(* Signed packets *)

RecordTypes == {"TXT", "A", "SOA", "NS"}

Rec(n, t, d, ttl) == [name |-> n, rr_type |-> t, rdata |-> d, ttl |-> ttl]

OtherKey(k) == IF k = "k1" THEN "k2" ELSE "k1"

Bodies == {"apex", "deep", "junk"}

\* Message::from_bytes(encoded_packet): whether hickory parses the inner
\* DNS packet (simple-dns accepted it when the packet was built).
ParsesAsMessage(body) == body # "junk"

\* The answer section of the inner DNS packet of a packet of key k.  The
\* text of a TXT record is the sequence of its pieces, the separators " "
\* and "=" being pieces of their own.
Answers(body, k) ==
    CASE body = "apex" ->
           << Rec(<<to_z32(k)>>, "TXT", <<"v", "=", "1">>, 30),
              Rec(<<to_z32(k)>>, "SOA", "soa", 30),
              Rec(<<"_Iroh_Node", to_z32(k)>>, "TXT", <<"relay", "=", "r1">>, 30),
              Rec(<<"www", to_z32(OtherKey(k))>>, "A", "10.0.0.9", 30),
              Rec(<<to_z32(k)>>, "TXT", <<"v", "=", "2">>, 30) >>
      [] body = "deep" ->
           << Rec(<<"A", "b", to_z32(k)>>, "TXT", <<"deep">>, 60),
              Rec(<<to_z32(k)>>, "A", "10.0.0.1", 60),
              Rec(<<"x", to_z32(k)>>, "NS", "ns1", 60),
              Rec(<<"_iroh_node", to_z32(k)>>, "TXT", <<"relay", "=", "r2">>, 60),
              Rec(<<>>, "A", "10.0.0.2", 60) >>
      [] body = "announce" ->
           << Rec(<<"_iroh_node", to_z32(k)>>, "TXT",
                  <<"node", "=", IF k = "k1" THEN "b32k1" ELSE "b32k2",
                    " ", "derp", "=", "d1">>, 30) >>
      [] body = "announce2" ->
           << Rec(<<to_z32(k)>>, "A", "10.0.0.3", 30),
              Rec(<<"_iroh_node", to_z32(k)>>, "TXT",
                  <<"node", "=", IF k = "k1" THEN "b32k1" ELSE "b32k2",
                    " ", "derp", "=", "D2", " ", "x", "=", "1">>, 30) >>
      [] body = "wrongnode" ->
           << Rec(<<"_iroh_node", to_z32(k)>>, "TXT",
                  <<"node", "=", IF k = "k1" THEN "b32k2" ELSE "b32k1",
                    " ", "derp", "=", "d1">>, 30) >>
      [] OTHER -> << >>

\* The order of the encoded inner packets as byte strings.
EncodedRank(body) ==
    CASE body = "apex" -> 1 [] body = "deep" -> 2 [] OTHER -> 3

\* The SignedPacket values a caller can hand over: validly signed packets of
\* every body, and packets built without verification (from_bytes(_, false))
\* whose signature does not verify.  The second key publishes one body.
Packets ==
    { p \in [key : Keys, timestamp : 1..MaxTs, body : Bodies, sig : BOOLEAN] :
        /\ p.sig \/ p.body = "apex"
        /\ p.key = "k2" => (p.sig /\ p.body = "deep") }

NoPacket == [key |-> "none", timestamp |-> 0, body |-> "none", sig |-> FALSE]
NoRow == NoPacket

\* SignedPacket::more_recent_than (pkarr): the later timestamp, and on equal
\* timestamps the larger encoded packet.
more_recent_than_ge(self, other) == self.timestamp >= other.timestamp

more_recent_than(self, other) ==
    IF self.timestamp = other.timestamp
    THEN EncodedRank(self.body) > EncodedRank(other.body)
    ELSE self.timestamp > other.timestamp

\* SignedPacket::from_bytes(bytes, verify): Some packet, or NoPacket on error.
\* A row whose bytes are no signed packet: too short, or no DNS packet.
CorruptRow(k) == [key |-> k, timestamp |-> 0, body |-> "corrupt", sig |-> FALSE]

from_bytes(row, verify) ==
    IF row.body = "corrupt" \/ (verify /\ ~row.sig) THEN NoPacket ELSE row

----------------------------------------------------------------------------
(* Record sets (hickory RecordSet, for the record types of this model) *)

\* RecordSet::from(record).
RecordSet_from(record) ==
    [name |-> record.name, record_type |-> record.rr_type,
     ttl |-> record.ttl, serial |-> 0, records |-> <<record>>]

\* RecordSet::new(name, record_type, serial).
RecordSet_new(name, record_type, serial) ==
    [name |-> name, record_type |-> record_type,
     ttl |-> 0, serial |-> serial, records |-> << >>]

\* RecordSet::insert(record, serial): an identical record is ignored, a
\* record of the same rdata is replaced, any other record is added.
RecordSet_insert(set, record, serial) ==
    IF \E i \in DOMAIN set.records : set.records[i] = record
    THEN set
    ELSE IF \E i \in DOMAIN set.records : set.records[i].rdata = record.rdata
    THEN [set EXCEPT !.records =
                 [i \in DOMAIN set.records |->
                     IF set.records[i].rdata = record.rdata
                     THEN record ELSE set.records[i]],
             !.ttl = record.ttl, !.serial = serial]
    ELSE [set EXCEPT !.records = Append(set.records, record),
             !.ttl = record.ttl, !.serial = serial]

\* RrKey::new(name.into(), record_type): the lower-cased name and the type.
RrKey(name, record_type) == <<LowerName(name), record_type>>

EmptyRecords == [key \in {} |-> RecordSet_new(<< >>, "TXT", 0)]

----------------------------------------------------------------------------
(* util.rs: projecting a packet into records without origin *)

\* Mutants of the filter of one answer record.
KeepRecord_no_type_filter(record, common_zone) ==
    /\ Len(record.name) >= 1
    /\ Lower(record.name[Len(record.name)]) = Lower(common_zone)

KeepRecord_first_label(record, common_zone) ==
    /\ record.rr_type \notin {"SOA", "NS"}
    /\ Len(record.name) >= 1
    /\ Lower(record.name[1]) = Lower(common_zone)

\* Whether the loop keeps an answer record: not SOA or NS, at least one
\* label, and its last label is the z32 key (labels compare without case).
KeepRecord(record, common_zone) ==
    /\ record.rr_type \notin {"SOA", "NS"}
    /\ Len(record.name) >= 1
    /\ Lower(record.name[Len(record.name)]) = Lower(common_zone)

\* One turn of the loop over the answers: the output map after answer i.
RECURSIVE ProjectAnswers(_, _, _, _)
ProjectAnswers(answers, i, common_zone, output) ==
    IF i > Len(answers) THEN output
    ELSE
      LET record == answers[i] IN
      IF ~KeepRecord(record, common_zone)
      THEN ProjectAnswers(answers, i + 1, common_zone, output)
      ELSE
        LET name_without_zone == SubSeq(record.name, 1, Len(record.name) - 1)
            stripped == [record EXCEPT !.name = name_without_zone]
            rrkey == RrKey(stripped.name, stripped.rr_type)
            next ==
              IF rrkey \in DOMAIN output
              THEN [output EXCEPT ![rrkey] =
                       RecordSet_insert(output[rrkey], stripped,
                                        output[rrkey].serial)]
              ELSE [k \in DOMAIN output \cup {rrkey} |->
                       IF k = rrkey THEN RecordSet_from(stripped)
                       ELSE output[k]]
        IN ProjectAnswers(answers, i + 1, common_zone, next)

\* signed_packet_to_hickory_records_without_origin(signed_packet, |_| true):
\* the records map (the caller has checked that the body parses).
signed_packet_to_hickory_records_without_origin(signed_packet) ==
    ProjectAnswers(Answers(signed_packet.body, signed_packet.key), 1,
                   to_z32(signed_packet.key), EmptyRecords)

\* record_set_append_origin(input, origin, serial).
RECURSIVE AppendOriginLoop(_, _, _, _, _)
AppendOriginLoop(records, i, new_name, serial, output) ==
    IF i > Len(records) THEN output
    ELSE AppendOriginLoop(records, i + 1, new_name, serial,
            RecordSet_insert(output, [records[i] EXCEPT !.name = new_name],
                             serial))

\* A variant that keeps the serial of the input record set.
record_set_append_origin_input_serial(input, origin, serial) ==
    LET new_name == input.name \o origin IN
    AppendOriginLoop(input.records, 1, new_name, input.serial,
                     RecordSet_new(new_name, input.record_type, input.serial))

record_set_append_origin(input, origin, serial) ==
    LET new_name == input.name \o origin IN
    AppendOriginLoop(input.records, 1, new_name, serial,
                     RecordSet_new(new_name, input.record_type, serial))

----------------------------------------------------------------------------
(* PkarrZone *)

NoZone == [timestamp |-> 0, records |-> EmptyRecords, present |-> FALSE]

\* PkarrZone::from_signed_packet: Ok(zone), or an error when the inner
\* packet does not parse.
from_signed_packet_fails(signed_packet) == ~ParsesAsMessage(signed_packet.body)

from_signed_packet(signed_packet) ==
    [timestamp |-> signed_packet.timestamp,
     records |-> signed_packet_to_hickory_records_without_origin(signed_packet),
     present |-> TRUE]

\* PkarrZone::older_than.
older_than_or_equal(zone, signed_packet) ==
    signed_packet.timestamp >= zone.timestamp

older_than(zone, signed_packet) == signed_packet.timestamp > zone.timestamp

----------------------------------------------------------------------------
(* SignedPacketStore *)

\* SignedPacketStore::upsert on the table: the table afterwards, the value
\* returned and whether the row is new (store_packets_inserted) or replaced.
store_upsert_ignores_age(table, packet) ==
    [table |-> [table EXCEPT ![packet.key] = packet], ret |-> TRUE,
     inserted |-> table[packet.key] = NoRow]

store_upsert(table, packet) ==
    LET existing == table[packet.key] IN
    IF existing # NoRow /\ more_recent_than(existing, packet)
    THEN [table |-> table, ret |-> FALSE, inserted |-> FALSE]
    ELSE [table |-> [table EXCEPT ![packet.key] = packet], ret |-> TRUE,
          inserted |-> existing = NoRow]

\* SignedPacketStore::get.
store_get(table, key) == from_bytes(table[key], FALSE)

\* SignedPacketStore::remove: the table afterwards and whether a row existed.
store_remove(table, key) ==
    [table |-> [table EXCEPT ![key] = NoRow], ret |-> table[key] # NoRow]

\* SignedPacketStore::iter: the rows in key order, each decoded without
\* verifying its signature.
KeyOrder == <<"k1", "k2">>

store_iter_verifying(table) ==
    LET present == SelectSeq(KeyOrder, LAMBDA k : table[k] # NoRow) IN
    [i \in DOMAIN present |-> from_bytes(table[present[i]], TRUE)]

\* Mutant of iter: the iteration ends at the first row that fails to decode.
store_iter_until_error(table) ==
    LET present == SelectSeq(KeyOrder, LAMBDA k : table[k] # NoRow)
        good == { n \in 0..Len(present) :
                    \A i \in 1..n :
                       from_bytes(table[present[i]], FALSE) # NoPacket }
        last == CHOOSE n \in good : \A m \in good : m <= n
    IN [i \in 1..last |-> from_bytes(table[present[i]], FALSE)]

store_iter(table) ==
    LET present == SelectSeq(KeyOrder, LAMBDA k : table[k] # NoRow) IN
    [i \in DOMAIN present |-> from_bytes(table[present[i]], FALSE)]

----------------------------------------------------------------------------
(* NodeAuthority *)

\* NodeAuthority::upsert_pkarr_zone on the zones map (under the write
\* lock): the map afterwards and Ok(updated) or Err.
upsert_pkarr_zone_unconditional(zs, signed_packet) ==
    IF from_signed_packet_fails(signed_packet)
    THEN [zones |-> zs, result |-> "err"]
    ELSE [zones |-> [zs EXCEPT ![signed_packet.key] =
                        from_signed_packet(signed_packet)],
          result |-> "true"]
\* The records of zone `old` with those of zone `new` inserted into them.
RECURSIVE InsertAll(_, _, _)
InsertAll(set, records, i) ==
    IF i > Len(records) THEN set
    ELSE InsertAll(RecordSet_insert(set, records[i], set.serial), records, i + 1)

\* Mutant of upsert_pkarr_zone: the records of a newer packet are inserted
\* into the zone's record sets instead of replacing the zone.
upsert_pkarr_zone_merging(zs, signed_packet) ==
    LET key == signed_packet.key
        fresh == ~zs[key].present \/ signed_packet.timestamp > zs[key].timestamp
        new == from_signed_packet(signed_packet)
        old == zs[key]
    IN
    IF ~fresh THEN [zones |-> zs, result |-> "false"]
    ELSE IF from_signed_packet_fails(signed_packet)
    THEN [zones |-> zs, result |-> "err"]
    ELSE [zones |-> [zs EXCEPT ![key] =
                       [timestamp |-> new.timestamp, present |-> TRUE,
                        records |->
                          [k \in DOMAIN old.records \cup DOMAIN new.records |->
                             IF k \notin DOMAIN old.records THEN new.records[k]
                             ELSE IF k \notin DOMAIN new.records
                             THEN old.records[k]
                             ELSE InsertAll(old.records[k],
                                            new.records[k].records, 1)]]],
          result |-> "true"]

\* Mutant of upsert_pkarr_zone: the zones map is built anew around the zone
\* of the packet's key.
upsert_pkarr_zone_clearing(zs, signed_packet) ==
    LET key == signed_packet.key
        fresh == ~zs[key].present \/ older_than(zs[key], signed_packet)
    IN
    IF ~fresh THEN [zones |-> zs, result |-> "false"]
    ELSE IF from_signed_packet_fails(signed_packet)
    THEN [zones |-> zs, result |-> "err"]
    ELSE [zones |-> [k \in DOMAIN zs |->
                        IF k = key THEN from_signed_packet(signed_packet)
                        ELSE NoZone],
          result |-> "true"]

upsert_pkarr_zone(zs, signed_packet) ==
    LET key == signed_packet.key
        fresh == ~zs[key].present \/ older_than(zs[key], signed_packet)
    IN
    IF ~fresh THEN [zones |-> zs, result |-> "false"]
    ELSE IF from_signed_packet_fails(signed_packet)
    THEN [zones |-> zs, result |-> "err"]
    ELSE [zones |-> [zs EXCEPT ![key] = from_signed_packet(signed_packet)],
          result |-> "true"]

\* NodeAuthority::new: the loop over store.iter(), from empty zones; the
\* construction fails on the first row that fails.
RECURSIVE LoadRows(_, _, _)
LoadRows(rows, i, zs) ==
    IF i > Len(rows) THEN [ok |-> TRUE, zones |-> zs]
    ELSE IF rows[i] = NoPacket THEN [ok |-> FALSE, zones |-> zs]
    ELSE LET r == upsert_pkarr_zone(zs, rows[i]) IN
         IF r.result = "err" THEN [ok |-> FALSE, zones |-> zs]
         ELSE LoadRows(rows, i + 1, r.zones)

NodeAuthority_new(table) ==
    LoadRows(store_iter(table), 1, [k \in Keys |-> NoZone])

\* NodeAuthority::resolve_pkarr: Some(record set) or None.
NoRecordSet == RecordSet_new(<<"none">>, "none", 0)

resolve_pkarr(zs, public_key, name, record_type) ==
    LET key == RrKey(name, record_type) IN
    IF zs[public_key].present /\ key \in DOMAIN zs[public_key].records
    THEN zs[public_key].records[key]
    ELSE NoRecordSet

----------------------------------------------------------------------------
(* The invocations of upsert_pkarr *)

Calls == 1..NumCalls

NewCall == [pc |-> "new", pkt |-> NoPacket, updated |-> FALSE,
            wrote |-> "none", res |-> "none"]

ZeroMetrics ==
    [pkarr_publish_update |-> 0, pkarr_publish_noop |-> 0,
     pkarr_publish_error |-> 0, store_packets_inserted |-> 0,
     store_packets_updated |-> 0, store_packets_removed |-> 0,
     http_requests |-> 0, http_requests_success |-> 0,
     http_requests_error |-> 0]

inc(m, counter) == [m EXCEPT ![counter] = @ + 1]

NoQuery == [name |-> << >>, rtype |-> "none", code |-> "none",
            source |-> "none", answer |-> NoRecordSet]
NoSret == [op |-> "none", pkt |-> NoPacket, ret |-> FALSE]

DefaultOrigins == << <<"irohdns", "example">>, << >> >>

\* Mutant of the first step: a no-op on the zone goes on to the store write
\* as an update does.
UpsertZone_store_write_on_noop(c, p) ==
    /\ calls[c].pc = "new"
    /\ LET r == upsert_pkarr_zone(zones, p) IN
       /\ zones' = r.zones
       /\ IF r.result = "err"
          THEN /\ metrics' = inc(metrics, "pkarr_publish_error")
               /\ calls' = [calls EXCEPT ![c] =
                     [pc |-> "done", pkt |-> p, updated |-> FALSE,
                      wrote |-> "none", res |-> "err"]]
          ELSE /\ metrics' = metrics
               /\ calls' = [calls EXCEPT ![c] =
                     [pc |-> "store", pkt |-> p,
                      updated |-> (r.result = "true"),
                      wrote |-> "none", res |-> "none"]]
    /\ UNCHANGED <<all_origins, store, query, sret>>
    /\ UNCHANGED httpvars
    /\ UNCHANGED restvars

\* upsert_pkarr, first step: upsert_pkarr_zone under the write lock.  An
\* error is counted and returned, a no-op is counted and returned, an
\* update goes on to the store write.
UpsertZone(c, p) ==
    /\ calls[c].pc = "new"
    /\ LET r == upsert_pkarr_zone(zones, p) IN
       /\ zones' = r.zones
       /\ IF r.result = "err"
          THEN /\ metrics' = inc(metrics, "pkarr_publish_error")
               /\ calls' = [calls EXCEPT ![c] =
                     [pc |-> "done", pkt |-> p, updated |-> FALSE,
                      wrote |-> "none", res |-> "err"]]
          ELSE IF r.result = "false"
          THEN /\ metrics' = inc(metrics, "pkarr_publish_noop")
               /\ calls' = [calls EXCEPT ![c] =
                     [pc |-> "done", pkt |-> p, updated |-> FALSE,
                      wrote |-> "none", res |-> "ok_false"]]
          ELSE /\ metrics' = metrics
               /\ calls' = [calls EXCEPT ![c] =
                     [pc |-> "store", pkt |-> p, updated |-> TRUE,
                      wrote |-> "none", res |-> "none"]]
    /\ UNCHANGED <<all_origins, store, query, sret>>
    /\ UNCHANGED httpvars
    /\ UNCHANGED restvars

\* upsert_pkarr, second step: store.upsert commits; its value is dropped,
\* pkarr_publish_update is counted and Ok(updated) returned.
UpsertStore(c) ==
    /\ calls[c].pc = "store"
    /\ LET r == store_upsert(store, calls[c].pkt) IN
       /\ store' = r.table
       /\ metrics' =
            IF ~r.ret THEN inc(metrics, "pkarr_publish_update")
            ELSE IF r.inserted
            THEN inc(inc(metrics, "store_packets_inserted"),
                     "pkarr_publish_update")
            ELSE inc(inc(metrics, "store_packets_updated"),
                     "pkarr_publish_update")
       /\ calls' = [calls EXCEPT ![c].pc = "done",
                                 ![c].wrote = IF r.ret THEN "true" ELSE "false",
                                 ![c].res = "ok_true"]
    /\ UNCHANGED <<all_origins, zones, query, sret>>
    /\ UNCHANGED httpvars
    /\ UNCHANGED restvars

\* upsert_pkarr, second step: the write transaction fails (an I/O error of
\* the database); the error is returned by `?`, no counter is touched.
UpsertStoreFail(c) ==
    /\ calls[c].pc = "store"
    /\ calls' = [calls EXCEPT ![c].pc = "done", ![c].wrote = "err",
                              ![c].res = "err"]
    /\ UNCHANGED <<all_origins, zones, store, metrics, query, sret>>
    /\ UNCHANGED httpvars
    /\ UNCHANGED restvars

\* A restart of the server: no upsert is running, the process ends and
\* NodeAuthority::new builds the zones again from the rows of the store.
Restart ==
    /\ \A c \in Calls : calls[c].pc # "store"
    /\ NodeAuthority_new(store).ok
    /\ zones' = NodeAuthority_new(store).zones
    /\ metrics' = ZeroMetrics
    /\ UNCHANGED <<all_origins, store, calls, query, sret>>
    /\ UNCHANGED httpvars
    /\ UNCHANGED restvars

\* The serial of the configured default SOA record.
DefaultSoaSerial == 0

\* The clients of the HTTP server, by peer IP address.
IPs == {"ip1", "ip2"}

\* No entry of the rate limiter's state store for a client.
NoTat == -1

NoResp == [method |-> "none", path |-> "none", key |-> "none",
           pkt |-> NoPacket, status |-> "none"]

\* DnsServer::setup_authority: the zone of IrohAuthority starts with the SOA
\* and the A record set of the origin.
setup_authority(origin, serial) ==
    (RrKey(origin, "SOA") :>
        RecordSet_insert(RecordSet_new(origin, "SOA", serial),
                         Rec(origin, "SOA", "default_soa", 1209600), serial))
    @@ (RrKey(origin, "A") :>
        RecordSet_insert(RecordSet_new(origin, "A", serial),
                         Rec(origin, "A", "127.0.0.1", 900), serial))

\* The HTTP side at process start.
HttpInit ==
    /\ inner = setup_authority(all_origins[1], DefaultSoaSerial)
    /\ limiter = [ip \in IPs |-> NoTat]
    /\ now = 0
    /\ puts = << >>
    /\ resp = NoResp

\* The names of main's tasks and of the listeners of http::serve.
TaskNames == {"http", "dns", "metrics"}
ListenerNames == {"http", "https"}

NoTask == [st |-> "none", res |-> "none"]

\* Config::default: http and https are configured, and metrics_addr() is
\* Some for `metrics: None`.
DefaultConfig == [http |-> TRUE, https |-> TRUE, metrics |-> TRUE]

\* No iteration over the store under way.
NoIter == [st |-> "none", snap |-> [k \in Keys |-> NoRow], pos |-> 0,
           items |-> << >>]

\* No DNS UPDATE message served yet.
NoUpd == [n |-> 0, msg |-> [sig0 |-> << >>, updates |-> << >>],
          code |-> "none", updated |-> FALSE]

\* No announce under way.
NoRoundTrip == [stage |-> "none", an |-> [ok |-> FALSE, node_id |-> NoKey,
                                          home_derp |-> "none",
                                          home_dns |-> << >>],
                key |-> NoKey, packet |-> NoPacket,
                back |-> [ok |-> FALSE, node_id |-> NoKey,
                          home_derp |-> "none", home_dns |-> << >>]]

\* The process before main spawns its tasks.
MainIdle ==
    /\ config = DefaultConfig
    /\ tasks = [t \in TaskNames |-> NoTask]
    /\ listeners = [l \in ListenerNames |-> "none"]
    /\ sweeper = "none"
    /\ token = FALSE
    /\ final_res = "ok"
    /\ main_pc = "joining"

Init ==
    /\ all_origins = DefaultOrigins
    /\ zones = [k \in Keys |-> NoZone]
    /\ store = [k \in Keys |-> NoRow]
    /\ calls = [c \in Calls |-> NewCall]
    /\ metrics = ZeroMetrics
    /\ query = NoQuery
    /\ sret = NoSret
    /\ HttpInit
    /\ MainIdle
    /\ announce = NoRoundTrip
    /\ iter = NoIter
    /\ upd = NoUpd

Next ==
    \/ \E c \in Calls, p \in Packets : UpsertZone(c, p)
    \/ \E c \in Calls : UpsertStore(c)
    \/ \E c \in Calls : UpsertStoreFail(c)
    \/ Restart

Spec == Init /\ [][Next]_vars

----------------------------------------------------------------------------
(* Claims on upsert_pkarr, the zones map and the store *)

Started(c) == calls[c].pc # "new"
Quiescent == \A c \in Calls : calls[c].pc # "store"
Max(S) == CHOOSE x \in S : \A y \in S : y <= x

\* The timestamps of the validly signed packets submitted for key k.
VerifiedTs(k) ==
    { calls[c].pkt.timestamp :
        c \in { d \in Calls : /\ Started(d)
                              /\ calls[d].pkt.key = k
                              /\ calls[d].pkt.sig } }

\* C1: after any sequence of upsert_pkarr calls that each ran to completion
\* (returned Ok), the zone and the store row of a key both hold the maximum
\* timestamp among the submitted packets whose signature verified.
C1_max_verified_timestamp_held ==
    (/\ Quiescent
     /\ \A c \in Calls : Started(c) => calls[c].res \in {"ok_true", "ok_false"})
    => \A k \in Keys :
          VerifiedTs(k) # {} =>
            /\ zones[k].present
            /\ zones[k].timestamp = Max(VerifiedTs(k))
            /\ store[k] # NoRow
            /\ store[k].timestamp = Max(VerifiedTs(k))

\* C2: outside a restart, a key's zone changes only to a zone of a strictly
\* greater timestamp (a packet of an equal timestamp is a no-op), and a key
\* present in zones stays present.
C2_zone_replaced_only_by_newer ==
    [][ \/ Restart
        \/ \A k \in Keys :
             /\ zones[k].present => zones'[k].present
             /\ zones'[k] # zones[k] =>
                  /\ zones'[k].present
                  /\ zones'[k].timestamp > zones[k].timestamp ]_vars

\* C2 witness: a packet with the timestamp of the zone but another body was
\* submitted and was a no-op: the zone still is the first packet's.
C2_witness_equal_timestamp_noop ==
    \E c1, c2 \in Calls :
       /\ calls[c1].updated /\ calls[c2].res = "ok_false"
       /\ calls[c1].pkt.key = calls[c2].pkt.key
       /\ calls[c1].pkt.timestamp = calls[c2].pkt.timestamp
       /\ calls[c1].pkt.body # calls[c2].pkt.body
       /\ zones[calls[c1].pkt.key] = from_signed_packet(calls[c1].pkt)

\* C4: in every reachable state, for every key in zones the store holds a
\* packet of the same key and timestamp.
C4_zone_has_store_row ==
    \A k \in Keys :
       zones[k].present =>
          /\ store[k] # NoRow
          /\ store[k].key = k
          /\ store[k].timestamp = zones[k].timestamp

\* C5: two upserts for the same key with different timestamps, under every
\* interleaving of their zone steps and store steps: once both have
\* returned Ok (and no other upsert touched the key), the zone and the store
\* row both hold the packet with the larger timestamp.
C5_concurrent_puts_larger_wins ==
    \A c1, c2 \in Calls :
       (/\ c1 # c2
        /\ calls[c1].pc = "done" /\ calls[c2].pc = "done"
        /\ calls[c1].res # "err" /\ calls[c2].res # "err"
        /\ calls[c1].pkt.key = calls[c2].pkt.key
        /\ calls[c1].pkt.timestamp > calls[c2].pkt.timestamp
        /\ \A c \in Calls \ {c1, c2} :
              Started(c) => calls[c].pkt.key # calls[c1].pkt.key)
       => /\ zones[calls[c1].pkt.key] = from_signed_packet(calls[c1].pkt)
          /\ store[calls[c1].pkt.key] = calls[c1].pkt

\* C5 witness: the two upserts overlapped: the smaller packet updated the
\* zone first, and its store write came after the larger packet's write
\* (the store turned it down).
C5_witness_interleaved ==
    \E c1, c2 \in Calls :
       /\ c1 # c2
       /\ calls[c1].pc = "done" /\ calls[c2].pc = "done"
       /\ calls[c1].pkt.key = calls[c2].pkt.key
       /\ calls[c1].pkt.timestamp > calls[c2].pkt.timestamp
       /\ calls[c1].res = "ok_true" /\ calls[c2].res = "ok_true"
       /\ calls[c2].wrote = "false"
       /\ store[calls[c1].pkt.key] = calls[c1].pkt

\* C6: when no upsert has failed, a restart (NodeAuthority::new over the
\* same store) yields the zones map of before the restart: the same keys,
\* timestamps and records; and the store is as before.
C6_restart_rebuilds_same_zones ==
    [][ (Restart /\ \A c \in Calls : calls[c].res # "err")
        => (zones' = zones /\ store' = store) ]_vars

\* C6 witness: after an accepted upsert the server was restarted (the
\* counters are those of a new process) and the zone of the key is the
\* accepted packet's.
C6_witness_restarted_after_accept ==
    \E c \in Calls :
       /\ calls[c].res = "ok_true"
       /\ \A d \in Calls : calls[d].res # "err" /\ calls[d].pc # "store"
       /\ metrics = ZeroMetrics
       /\ zones[calls[c].pkt.key] = from_signed_packet(calls[c].pkt)

\* C7: zones only ever takes the projection of a packet whose signature
\* verifies: an upsert that updates zones carries a verified packet, and
\* every row loaded at a restart is a verified packet.
C7_zones_only_from_verified_packets ==
    [][ /\ \A c \in Calls :
             (calls[c].pc = "new" /\ calls'[c].pc = "store")
                => calls'[c].pkt.sig
        /\ Restart => \A k \in Keys : zones'[k].present => store[k].sig ]_vars

\* The records of packet p of type T whose owner name is the bare label
\* z32(key), without their names.
Body(record) ==
    [rr_type |-> record.rr_type, rdata |-> record.rdata, ttl |-> record.ttl]

ApexRecords(p, T) ==
    LET answers == Answers(p.body, p.key) IN
    { Body(answers[i]) :
        i \in { j \in DOMAIN answers :
                  /\ Len(answers[j].name) = 1
                  /\ Lower(answers[j].name[1]) = to_z32(p.key)
                  /\ answers[j].rr_type = T } }

RecordBodies(set) == { Body(set.records[i]) : i \in DOMAIN set.records }

----------------------------------------------------------------------------
(* The store driven directly through its public operations *)

StoreOpsCounted ==
    metrics.store_packets_inserted + metrics.store_packets_updated
        + metrics.store_packets_removed

\* SignedPacketStore::upsert(packet).
StoreUpsert(p) ==
    /\ StoreOpsCounted < MaxStoreOps
    /\ LET r == store_upsert(store, p) IN
       /\ store' = r.table
       /\ sret' = [op |-> "upsert", pkt |-> p, ret |-> r.ret]
       /\ metrics' =
            IF ~r.ret THEN metrics
            ELSE IF r.inserted THEN inc(metrics, "store_packets_inserted")
            ELSE inc(metrics, "store_packets_updated")
    /\ UNCHANGED <<all_origins, zones, calls, query>>
    /\ UNCHANGED httpvars
    /\ UNCHANGED restvars

\* SignedPacketStore::get(key).
StoreGet(k) ==
    /\ sret' = [op |-> "get", pkt |-> store_get(store, k),
                ret |-> store_get(store, k) # NoPacket]
    /\ UNCHANGED <<all_origins, zones, store, calls, metrics, query>>
    /\ UNCHANGED httpvars
    /\ UNCHANGED restvars

\* SignedPacketStore::remove(key).
StoreRemove(k) ==
    /\ StoreOpsCounted < MaxStoreOps
    /\ LET r == store_remove(store, k) IN
       /\ store' = r.table
       /\ sret' = [op |-> "remove", pkt |-> NoPacket, ret |-> r.ret]
       /\ metrics' = IF r.ret THEN inc(metrics, "store_packets_removed")
                     ELSE metrics
    /\ UNCHANGED <<all_origins, zones, calls, query>>
    /\ UNCHANGED httpvars
    /\ UNCHANGED restvars

NextStore ==
    \/ \E p \in Packets : StoreUpsert(p)
    \/ \E k \in Keys : StoreGet(k)
    \/ \E k \in Keys : StoreRemove(k)

SpecStore == Init /\ [][NextStore]_vars

\* C3 (as claimed): upsert returns false and leaves the row unchanged when a
\* row exists with existing.timestamp >= packet.timestamp, and otherwise
\* writes the packet as the key's row and returns true.
C3_upsert_rejects_equal_or_older ==
    [][ \A p \in Packets :
          StoreUpsert(p) =>
             IF store[p.key] # NoRow /\ store[p.key].timestamp >= p.timestamp
             THEN sret'.ret = FALSE /\ store' = store
             ELSE sret'.ret = TRUE /\ store'[p.key] = p ]_vars

\* C3 (amended): upsert returns false and leaves the table unchanged when a
\* row exists that is more recent than the packet: a greater timestamp, or
\* the same timestamp and a greater encoded packet.  Otherwise (no row, an
\* older row, or the same timestamp and an encoded packet not greater, the
\* identical packet included) it writes the packet as the key's row, leaves
\* the other rows alone and returns true.
C3_upsert_rejects_more_recent_row ==
    [][ \A p \in Packets :
          StoreUpsert(p) =>
             LET existing == store[p.key] IN
             IF /\ existing # NoRow
                /\ \/ existing.timestamp > p.timestamp
                   \/ /\ existing.timestamp = p.timestamp
                      /\ EncodedRank(existing.body) > EncodedRank(p.body)
             THEN sret'.ret = FALSE /\ store' = store
             ELSE /\ sret'.ret = TRUE
                  /\ store'[p.key] = p
                  /\ \A k \in Keys \ {p.key} : store'[k] = store[k] ]_vars

\* C3 witness: the packet that is the key's row was upserted again (same
\* timestamp): the store wrote it and returned true.  Timestamp 1 is the
\* least, nothing was removed, so the replaced row had timestamp 1 too.
C3_witness_equal_timestamp_written ==
    /\ sret.op = "upsert" /\ sret.ret = TRUE
    /\ sret.pkt.timestamp = 1
    /\ store[sret.pkt.key] = sret.pkt
    /\ metrics.store_packets_inserted = 1
    /\ metrics.store_packets_updated >= 1
    /\ metrics.store_packets_removed = 0
    /\ \A k \in Keys \ {sret.pkt.key} : store[k] = NoRow

----------------------------------------------------------------------------
(* Name resolution: split_and_parse_pkarr, lookup, search *)

\* NodeAuthority.serial.
Serial == 7

\* split_and_parse_pkarr: the loop over the allowed origins, in their
\* order.  The first origin that is a zone of the name decides: an error
\* when the name has no label above it or that label is no z32 key, else
\* the labels above the key label (taken from the reversed iterator), the
\* key and the origin.
RECURSIVE SplitLoop(_, _, _)
SplitLoop(name, allowed_origins, i) ==
    IF i > Len(allowed_origins)
    THEN [ok |-> FALSE, name |-> << >>, pkey |-> NoKey, origin |-> << >>]
    ELSE
      LET origin == allowed_origins[i] IN
      IF ~zone_of(origin, name)
      THEN SplitLoop(name, allowed_origins, i + 1)
      ELSE IF Len(name) < Len(origin) + 1
      THEN [ok |-> FALSE, name |-> << >>, pkey |-> NoKey, origin |-> origin]
      ELSE
        LET labels == Reverse(name)
            pkey_label == labels[Len(origin) + 1]
            pkey == PublicKey_try_from(pkey_label)
            remaining_name == SubSeq(labels, Len(origin) + 2, Len(labels))
        IN IF pkey = NoKey
           THEN [ok |-> FALSE, name |-> << >>, pkey |-> NoKey,
                 origin |-> origin]
           ELSE [ok |-> TRUE, name |-> remaining_name, pkey |-> pkey,
                 origin |-> origin]

split_and_parse_pkarr(name, allowed_origins) ==
    SplitLoop(name, allowed_origins, 1)

\* The static authority (InMemoryAuthority): SOA, NS and A record sets at
\* the apex of every configured origin, nothing else.
StaticTypes == {"SOA", "NS", "A"}

static_lookup(origins, name, record_type) ==
    IF /\ record_type \in StaticTypes
       /\ \E i \in DOMAIN origins : LowerName(origins[i]) = name
    THEN [code |-> "NoError", source |-> "static",
          answer |-> RecordSet_insert(
                        RecordSet_new(name, record_type, Serial),
                        Rec(name, record_type, "static", 900), Serial)]
    ELSE [code |-> "NXDomain", source |-> "static", answer |-> NoRecordSet]

\* Mutant of lookup: a name that does not split is answered NXDomain
\* instead of by the static authority.
lookup_without_static_fallthrough(zs, origins, name, record_type) ==
    IF record_type \in {"SOA", "NS"}
    THEN static_lookup(origins, name, record_type)
    ELSE
      LET split == split_and_parse_pkarr(name, origins) IN
      IF ~split.ok
      THEN [code |-> "NXDomain", source |-> "pkarr", answer |-> NoRecordSet]
      ELSE
        LET pkarr_set == resolve_pkarr(zs, split.pkey, split.name, record_type)
        IN IF pkarr_set = NoRecordSet
           THEN [code |-> "NXDomain", source |-> "pkarr",
                 answer |-> NoRecordSet]
           ELSE
             LET new_origin == <<to_z32(split.pkey)>> \o split.origin IN
             [code |-> "NoError", source |-> "pkarr",
              answer |-> record_set_append_origin(pkarr_set, new_origin,
                                                  Serial)]

\* NodeAuthority::lookup(name, record_type).
lookup(zs, origins, name, record_type) ==
    IF record_type \in {"SOA", "NS"}
    THEN static_lookup(origins, name, record_type)
    ELSE
      LET split == split_and_parse_pkarr(name, origins) IN
      IF ~split.ok
      THEN static_lookup(origins, name, record_type)
      ELSE
        LET pkarr_set == resolve_pkarr(zs, split.pkey, split.name, record_type)
        IN IF pkarr_set = NoRecordSet
           THEN [code |-> "NXDomain", source |-> "pkarr",
                 answer |-> NoRecordSet]
           ELSE
             LET new_origin == <<to_z32(split.pkey)>> \o split.origin IN
             [code |-> "NoError", source |-> "pkarr",
              answer |-> record_set_append_origin(pkarr_set, new_origin,
                                                  Serial)]

\* NodeAuthority::search(request_info): SOA from the static authority at the
\* primary origin, AXFR refused, every other type through lookup.
\* A variant without the AXFR arm: AXFR goes through lookup.
search_axfr_through_lookup(zs, origins, lookup_name, record_type) ==
    IF record_type = "SOA"
    THEN static_lookup(origins, LowerName(origins[1]), record_type)
    ELSE lookup(zs, origins, lookup_name, record_type)

search(zs, origins, lookup_name, record_type) ==
    IF record_type = "SOA"
    THEN static_lookup(origins, LowerName(origins[1]), record_type)
    ELSE IF record_type = "AXFR"
    THEN [code |-> "Refused", source |-> "none", answer |-> NoRecordSet]
    ELSE lookup(zs, origins, lookup_name, record_type)

\* The requests of the model: names below a key label (or another label)
\* under an origin, and the origins themselves.
RelNames == { << >>, <<"_iroh_node">>, <<"a", "b">>, <<"b", "a">> }
KeyLabels == { "z32k1", "z32k2", "www" }
OriginUniverse == { <<"irohdns", "example">>, <<"example">>, <<"iroh">>, << >> }
QueryNames ==
    { r \o <<l>> \o o : r \in RelNames, l \in KeyLabels, o \in OriginUniverse }
        \cup OriginUniverse
QueryTypes == {"TXT", "A", "SOA", "NS", "AXFR"}

\* The configurations: the origins, primary origin first.
Configs ==
    { << <<"irohdns", "example">>, << >> >>,
      << <<"irohdns", "example">>, <<"iroh">> >>,
      << <<"irohdns", "example">>, <<"example">> >>,
      << <<"example">>, <<"irohdns", "example">> >> }

\* A DNS request: search answers it from the zones of the moment.  search
\* reads the zones and changes nothing, so one observed request per
\* behaviour, at any point of it, covers every request.
Search(n, t) ==
    /\ query = NoQuery
    /\ LET r == search(zones, all_origins, LowerName(n), t) IN
       query' = [name |-> LowerName(n), rtype |-> t, code |-> r.code,
                 source |-> r.source, answer |-> r.answer]
    /\ UNCHANGED <<all_origins, zones, store, calls, metrics, sret>>
    /\ UNCHANGED httpvars
    /\ UNCHANGED restvars

\* The DNS UPDATE messages: the zone they address, the name they would
\* change, and whether they carry a signature.
UpdateMessages ==
    [zone : OriginUniverse, name : RelNames, key : Keys, signed : BOOLEAN]

\* Mutant of update: a signed message is accepted.
update_accepts_signed(_update) ==
    IF _update.signed THEN "NoError" ELSE "NotImp"

\* NodeAuthority::update: the response code of the error it returns.
update(_update) == "NotImp"

\* A DNS UPDATE request reaches the authority: update answers it and touches
\* no field of the authority.
Update(m) ==
    /\ query = NoQuery
    /\ query' = [name |-> LowerName(m.name \o <<to_z32(m.key)>> \o m.zone),
                 rtype |-> "UPDATE", code |-> update(m),
                 source |-> IF m.signed THEN "signed" ELSE "unsigned",
                 answer |-> NoRecordSet]
    /\ UNCHANGED <<all_origins, zones, store, calls, metrics, sret>>
    /\ UNCHANGED httpvars
    /\ UNCHANGED restvars

InitDns ==
    /\ all_origins \in Configs
    /\ zones = [k \in Keys |-> NoZone]
    /\ store = [k \in Keys |-> NoRow]
    /\ calls = [c \in Calls |-> NewCall]
    /\ metrics = ZeroMetrics
    /\ query = NoQuery
    /\ sret = NoSret
    /\ HttpInit
    /\ MainIdle
    /\ announce = NoRoundTrip
    /\ iter = NoIter
    /\ upd = NoUpd

\* One publisher and the DNS clients.
NextDns ==
    \/ \E p \in Packets : UpsertZone(1, p)
    \/ UpsertStore(1)
    \/ UpsertStoreFail(1)
    \/ \E n \in QueryNames, t \in QueryTypes : Search(n, t)
    \/ \E m \in UpdateMessages : Update(m)

SpecDns == InitDns /\ [][NextDns]_vars

EndsWith(name, suffix) ==
    /\ Len(suffix) <= Len(name)
    /\ SubSeq(name, Len(name) - Len(suffix) + 1, Len(name)) = suffix

\* C8: the owner name of an answer synthesized from a pkarr zone, and of
\* every record in it, equals the queried name up to letter case.
C8_answer_owner_equals_query ==
    (query.source = "pkarr" /\ query.code = "NoError") =>
       /\ LowerName(query.answer.name) = query.name
       /\ \A i \in DOMAIN query.answer.records :
             LowerName(query.answer.records[i].name) = query.name

\* C10: for a key with a zone, two distinct configured origins O1, O2, a
\* relative name R and a type: the queries R.z32(k).O1 and R.z32(k).O2 are
\* answered alike (both not at all, or both with the same rdata and TTL),
\* and the owner names of each answer end with z32(k) and the origin that
\* was queried.
C10_cross_origin_same_bodies ==
    \A k \in Keys, i, j \in DOMAIN all_origins, r \in RelNames,
       t \in {"TXT", "A"} :
       (zones[k].present /\ i # j) =>
          LET a1 == lookup(zones, all_origins,
                           r \o <<to_z32(k)>> \o all_origins[i], t)
              a2 == lookup(zones, all_origins,
                           r \o <<to_z32(k)>> \o all_origins[j], t)
          IN /\ a1.code = a2.code
             /\ RecordBodies(a1.answer) = RecordBodies(a2.answer)
             /\ a1.code = "NoError" =>
                  EndsWith(LowerName(a1.answer.name),
                           <<to_z32(k)>> \o all_origins[i])

\* The names R.z32(k).O of a key's zone under the configured origins.
PkarrNames ==
    { [k |-> k, r |-> r, i |-> i, n |-> r \o <<to_z32(k)>> \o all_origins[i]] :
        k \in Keys, r \in RelNames, i \in DOMAIN all_origins }

\* C11: a query (R.z32(k).O, T), O a configured origin and T not SOA, NS or
\* AXFR, is answered NXDomain out of the pkarr zones, without the static
\* authority, when k has no zone and when k's zone has no record set (R, T).
C11_nxdomain_without_zone_or_set ==
    \A q \in PkarrNames, t \in {"TXT", "A"} :
       (\/ ~zones[q.k].present
        \/ RrKey(q.r, t) \notin DOMAIN zones[q.k].records) =>
          LET a == search(zones, all_origins, q.n, t)
          IN a.code = "NXDomain" /\ a.source = "pkarr"

\* C12: an answered SOA or NS request comes from the static authority and
\* its record set is the one of the queried origin: the owner name of the
\* answer is the queried name.
C12_soa_ns_of_queried_origin ==
    (query.rtype \in {"SOA", "NS"} /\ query.code = "NoError") =>
        /\ query.source = "static"
        /\ query.answer.name = query.name

\* C13: an AXFR request is refused and carries no records, for every name
\* and every content of the zones.
C13_axfr_refused ==
    \A n \in QueryNames :
       LET a == search(zones, all_origins, LowerName(n), "AXFR")
       IN a.code = "Refused" /\ a.answer = NoRecordSet

\* An AXFR request for a name that holds records of a published key.
C13_witness_axfr_on_published_name ==
    /\ query.rtype = "AXFR"
    /\ query.code = "Refused"
    /\ \E q \in PkarrNames :
          /\ q.n = query.name
          /\ zones[q.k].present
          /\ lookup(zones, all_origins, q.n, "TXT").code = "NoError"

\* The configured origins that are a suffix of the name with at least one
\* further label.
MatchingOrigins(name) ==
    { i \in DOMAIN all_origins :
        /\ zone_of(all_origins[i], name)
        /\ Len(name) >= Len(all_origins[i]) + 1 }

\* C14: when several configured origins match a name, the name is split at
\* the longest of them, whatever the order of the configuration.
C14_split_at_longest_origin ==
    \A n \in QueryNames :
       LET m == MatchingOrigins(LowerName(n)) IN
       m # {} =>
          LET i == CHOOSE i \in m :
                      \A j \in m : Len(all_origins[j]) <= Len(all_origins[i])
          IN split_and_parse_pkarr(LowerName(n), all_origins)
               = split_and_parse_pkarr(LowerName(n), <<all_origins[i]>>)

\* C15: a record set synthesized from a pkarr zone carries the configured
\* serial, for every key, name, type and origin and every packet timestamp.
C15_synthesized_serial ==
    \A n \in QueryNames, t \in {"TXT", "A"} :
       LET a == search(zones, all_origins, LowerName(n), t)
       IN (a.source = "pkarr" /\ a.code = "NoError") =>
             a.answer.serial = Serial

\* An answer synthesized from a zone whose own record sets have another
\* serial and whose packet has another timestamp.
C15_witness_synthesized_answer ==
    /\ query.source = "pkarr"
    /\ query.code = "NoError"
    /\ query.answer.serial = Serial
    /\ Len(query.answer.records) > 1
    /\ \E k \in Keys :
          /\ zones[k].present
          /\ zones[k].timestamp # Serial
          /\ \A key \in DOMAIN zones[k].records :
                zones[k].records[key].serial # Serial

----------------------------------------------------------------------------
(* The HTTP front-end: PUT and GET /pkarr/:key behind the rate limiter *)

\* GovernorConfigBuilder::per_second(4): one element of the quota is
\* replenished every 4 seconds.
PerSecond == 4
\* GovernorConfigBuilder::burst_size(2).
BurstSize == 2

\* A limiter that lets every request through.
gcra_always_allow(tat, t0) == [ok |-> TRUE, tat |-> tat]

\* governor's Gcra::test_and_update for one key: t is the replenishment
\* interval, tau = t * burst; a request at t0 is let through unless t0 is
\* before tat - tau, and then the arrival time moves on by t.  A rejected
\* request leaves the state alone.
gcra_test_and_update(tat, t0) ==
    LET t == PerSecond
        tau == t * BurstSize
        cur == IF tat = NoTat THEN t0 + t ELSE tat
        earliest_time == IF cur > tau THEN cur - tau ELSE 0
    IN IF t0 < earliest_time
       THEN [ok |-> FALSE, tat |-> tat]
       ELSE [ok |-> TRUE, tat |-> (IF cur > t0 THEN cur ELSE t0) + t]

\* A variant that builds the packet without verifying the signature.
from_relay_response_unverified(public_key, payload) ==
    IF payload = NoPacket THEN NoPacket
    ELSE [payload EXCEPT !.key = public_key]

\* pkarr::SignedPacket::from_relay_response(public_key, payload): the
\* payload decodes and its signature verifies under public_key, or an error
\* (NoPacket).
from_relay_response(public_key, payload) ==
    IF payload = NoPacket \/ ~payload.sig \/ payload.key # public_key
    THEN NoPacket
    ELSE payload

\* NodeId::to_string: the base32 form of a key.
NodeId_to_string(k) == IF k = "k1" THEN "b32k1" ELSE "b32k2"

\* NodeId::from_str: the key of a base32 text, NoKey for an error.
NodeId_from_str(v) ==
    IF v = <<"b32k1">> THEN "k1" ELSE IF v = <<"b32k2">> THEN "k2" ELSE NoKey

\* The relay URLs, in the form Url prints them.
Urls == {"d1", "d2"}

\* Url::parse: Some(url) for a text that is a URL, the host in lower case;
\* "none" for any other text.
Url_parse(v) ==
    IF Len(v) # 1 THEN "none"
    ELSE IF v[1] \in Urls THEN v[1]
    ELSE IF v[1] = "D1" THEN "d1"
    ELSE IF v[1] = "D2" THEN "d2"
    ELSE "none"

\* Display of Url.
Url_to_string(url) == <<url>>

\* The first index of a separator in a text, 0 when there is none.
find(s, sep) ==
    IF \A i \in DOMAIN s : s[i] # sep THEN 0
    ELSE CHOOSE i \in DOMAIN s :
            s[i] = sep /\ \A j \in 1..(i - 1) : s[j] # sep

\* str::split(sep): the texts between the separators, empty ones included.
RECURSIVE split(_, _)
split(s, sep) ==
    LET i == find(s, sep) IN
    IF i = 0 THEN <<s>>
    ELSE <<SubSeq(s, 1, i - 1)>> \o split(SubSeq(s, i + 1, Len(s)), sep)

\* str::split_once(sep): the text before and after the first separator.
split_once(s, sep) ==
    LET i == find(s, sep) IN
    IF i = 0 THEN [found |-> FALSE, name |-> << >>, value |-> << >>]
    ELSE [found |-> TRUE, name |-> SubSeq(s, 1, i - 1),
          value |-> SubSeq(s, i + 1, Len(s))]

\* [String]::join(sep).
RECURSIVE join(_, _)
join(parts, sep) ==
    IF Len(parts) = 0 THEN << >>
    ELSE IF Len(parts) = 1 THEN parts[1]
    ELSE parts[1] \o <<sep>> \o join(Tail(parts), sep)

\* parse_attrs, the loop over the parts: the values pushed under one name,
\* in the order of the parts.
RECURSIVE AttrValues(_, _, _)
AttrValues(parts, i, name) ==
    IF i > Len(parts) THEN << >>
    ELSE LET kv == split_once(parts[i], "=")
             rest == AttrValues(parts, i + 1, name)
         IN IF kv.found /\ kv.name = <<name>> THEN <<kv.value>> \o rest
            ELSE rest

\* parse_attrs: the map from attribute names to their values; a name without
\* a part has the empty list here (no entry in the map).
parse_attrs(s) ==
    [name \in {"node", "derp", "dns"} |-> AttrValues(split(s, " "), 1, name)]

\* fmt_attr.
fmt_attr(label, value) == <<label, "=">> \o value

NoAnnounce == [ok |-> FALSE, node_id |-> NoKey, home_derp |-> "none",
               home_dns |-> << >>]

\* NodeAnnounce::parse_from_attributes: exactly one node attribute that is a
\* node id, the first derp attribute that is a URL, every dns attribute.
parse_from_attributes(attrs) ==
    LET m == parse_attrs(attrs)
        node == m["node"]
        urls == { i \in DOMAIN m["derp"] : Url_parse(m["derp"][i]) # "none" }
    IN IF Len(node) # 1 THEN NoAnnounce
       ELSE IF NodeId_from_str(node[1]) = NoKey THEN NoAnnounce
       ELSE [ok |-> TRUE,
             node_id |-> NodeId_from_str(node[1]),
             home_derp |->
                IF urls = {} THEN "none"
                ELSE Url_parse(m["derp"][CHOOSE i \in urls :
                                            \A j \in urls : i <= j]),
             home_dns |-> m["dns"]]

\* NodeAnnounce::to_attr_string: the node attribute, the derp attribute when
\* there is a relay, one dns attribute per entry, joined by spaces.
to_attr_string(an) ==
    LET attrs ==
          <<fmt_attr("node", <<NodeId_to_string(an.node_id)>>)>>
          \o (IF an.home_derp # "none"
              THEN <<fmt_attr("derp", Url_to_string(an.home_derp))>>
              ELSE << >>)
          \o [i \in DOMAIN an.home_dns |-> fmt_attr("dns", an.home_dns[i])]
    IN join(attrs, " ")

\* The TTL of the record of an announce.
DEFAULT_TTL == 30

\* NodeAnnounce::into_pkarr_dns_packet: the answer section, one TXT record
\* named _iroh_node with the attribute string.
into_pkarr_dns_packet(an) ==
    << Rec(<<"_iroh_node">>, "TXT", to_attr_string(an), DEFAULT_TTL) >>

\* pkarr::SignedPacket::from_packet: the names of the records are made
\* relative to the key's label, and the packet is signed by the key pair.
\* A packet built here carries its answer section.
SignedPacket_from_packet(keypair, answers) ==
    [key |-> keypair, timestamp |-> 1, body |-> "built", sig |-> TRUE,
     answers |->
        [i \in DOMAIN answers |->
           IF /\ Len(answers[i].name) >= 1
              /\ answers[i].name[Len(answers[i].name)] = to_z32(keypair)
           THEN answers[i]
           ELSE [answers[i] EXCEPT !.name = @ \o <<to_z32(keypair)>>]]]

\* NodeAnnounce::into_pkarr_signed_packet.
into_pkarr_signed_packet(an, signing_key) ==
    SignedPacket_from_packet(signing_key, into_pkarr_dns_packet(an))

\* SignedPacket::packet().answers.
packet_answers(packet) ==
    IF "answers" \in DOMAIN packet THEN packet.answers
    ELSE Answers(packet.body, packet.key)

\* NodeAnnounce::from_pkarr_signed_packet: the first TXT record named
\* _iroh_node under the key's label, parsed as attributes, its node
\* attribute being the packet's key; an error otherwise.
from_pkarr_signed_packet(packet) ==
    LET answers == packet_answers(packet)
        found == { i \in DOMAIN answers :
                     /\ answers[i].rr_type = "TXT"
                     /\ Len(answers[i].name) = 2
                     /\ answers[i].name[1] = "_iroh_node"
                     /\ Lower(answers[i].name[2]) = to_z32(packet.key) }
    IN IF found = {} THEN NoAnnounce
       ELSE LET i == CHOOSE i \in found : \A j \in found : i <= j
                an == parse_from_attributes(answers[i].rdata)
            IN IF an.ok /\ an.node_id = packet.key THEN an ELSE NoAnnounce

\* InMemoryAuthority::upsert(record, serial): the record goes into the set
\* of its name and type (a CNAME replaces what the set held); true when the
\* set changed.
InMemoryAuthority_upsert(records, record, serial) ==
    LET key == RrKey(record.name, record.rr_type)
        old == IF key \in DOMAIN records THEN records[key]
               ELSE RecordSet_new(record.name, record.rr_type, serial)
        set == IF record.rr_type = "CNAME"
               THEN RecordSet_insert([old EXCEPT !.records = << >>],
                                     record, serial)
               ELSE RecordSet_insert(old, record, serial)
    IN [records |-> (key :> set) @@ records,
        updated |-> record.rr_type = "CNAME" \/ set # old]

\* insert_node_announce, the loop over the additional origins: a CNAME at
\* _iroh_node.<node id>.<origin> to the name under the primary origin.
RECURSIVE AdditionalOrigins(_, _, _, _, _)
AdditionalOrigins(records, origins, i, an, name) ==
    IF i > Len(origins) THEN records
    ELSE
      LET zoned_name == <<"_iroh_node", NodeId_to_string(an.node_id)>>
                           \o origins[i]
          record == Rec(zoned_name, "CNAME", name, 30)
      IN AdditionalOrigins(
            InMemoryAuthority_upsert(records, record, DefaultSoaSerial).records,
            origins, i + 1, an, name)

\* IrohAuthority::insert_node_announce: the TXT record of the announce at
\* _iroh_node.<node id>.<primary origin>, then the CNAMEs.
insert_node_announce(records, origins, an) ==
    LET name == <<"_iroh_node", NodeId_to_string(an.node_id)>> \o origins[1]
        record == Rec(name, "TXT", to_attr_string(an), 30)
        r == InMemoryAuthority_upsert(records, record, DefaultSoaSerial)
    IN [records |-> AdditionalOrigins(r.records, origins, 2, an, name),
        updated |-> r.updated]

\* metrics_middleware: every request is counted, by its status.
count_request(m, status) ==
    inc(inc(m, "http_requests"),
        IF status \in {"200", "204"} THEN "http_requests_success"
        ELSE "http_requests_error")

\* Mutant of PUT /pkarr/:key: the handler runs whatever the rate limiter
\* says, and the limiter decides the status only.
Put_handler_despite_limit(ip, key, payload) ==
    /\ metrics.http_requests < MaxReqs
    /\ LET g == gcra_test_and_update(limiter[ip], now)
           public_key == PublicKey_try_from(key)
           signed_packet == IF public_key = NoKey THEN NoPacket
                            ELSE from_relay_response(public_key, payload)
           an == IF signed_packet = NoPacket THEN NoAnnounce
                 ELSE from_pkarr_signed_packet(signed_packet)
           handled == IF signed_packet = NoPacket THEN "400"
                      ELSE IF ~an.ok THEN "error"
                      ELSE "204"
           status == IF ~g.ok THEN "429" ELSE handled
       IN /\ limiter' = [limiter EXCEPT ![ip] = g.tat]
          /\ puts' = Append(puts, [ip |-> ip, at |-> now, ok |-> g.ok])
          /\ inner' = IF handled = "204"
                      THEN insert_node_announce(inner, all_origins, an).records
                      ELSE inner
          /\ resp' = [method |-> "PUT", path |-> "/pkarr", key |-> key,
                      pkt |-> payload, status |-> status]
          /\ metrics' = count_request(metrics, status)
    /\ UNCHANGED <<all_origins, zones, store, calls, query, sret, now>>
    /\ UNCHANGED restvars

\* PUT /pkarr/:key from a client: the rate limiter first (429), then
\* pkarr::put: the key of the path (400), the body as a signed packet of
\* that key (400), the node announce in it (an error response), and the
\* announce into the zone of IrohAuthority (204).
Put(ip, key, payload) ==
    /\ metrics.http_requests < MaxReqs
    /\ LET g == gcra_test_and_update(limiter[ip], now)
           public_key == PublicKey_try_from(key)
           signed_packet == IF public_key = NoKey THEN NoPacket
                            ELSE from_relay_response(public_key, payload)
           an == IF signed_packet = NoPacket THEN NoAnnounce
                 ELSE from_pkarr_signed_packet(signed_packet)
           status == IF ~g.ok THEN "429"
                     ELSE IF signed_packet = NoPacket THEN "400"
                     ELSE IF ~an.ok THEN "error"
                     ELSE "204"
       IN /\ limiter' = [limiter EXCEPT ![ip] = g.tat]
          /\ puts' = Append(puts, [ip |-> ip, at |-> now, ok |-> g.ok])
          /\ inner' = IF status = "204"
                      THEN insert_node_announce(inner, all_origins, an).records
                      ELSE inner
          /\ resp' = [method |-> "PUT", path |-> "/pkarr", key |-> key,
                      pkt |-> payload, status |-> status]
          /\ metrics' = count_request(metrics, status)
    /\ UNCHANGED <<all_origins, zones, store, calls, query, sret, now>>
    /\ UNCHANGED restvars

\* GET /pkarr/:key: pkarr::get answers 503 "unimplemented".
Get(key) ==
    /\ metrics.http_requests < MaxReqs
    /\ resp' = [method |-> "GET", path |-> "/pkarr", key |-> key,
                pkt |-> NoPacket, status |-> "503"]
    /\ metrics' = count_request(metrics, "503")
    /\ UNCHANGED <<all_origins, zones, store, calls, query, sret,
                   inner, limiter, now, puts>>
    /\ UNCHANGED restvars

\* doh::get and doh::post: the answer to a DNS query over HTTPS, 200 with
\* the DNS response or 400 for a request that is no DNS query.
doh_status(wellformed) == IF wellformed THEN "200" ELSE "400"

\* Mutant of the /dns-query route: the rate limiter in front of it.
DohQuery_rate_limited(ip, method, wellformed) ==
    /\ metrics.http_requests < MaxReqs
    /\ LET g == gcra_test_and_update(limiter[ip], now)
           status == IF ~g.ok THEN "429" ELSE doh_status(wellformed)
       IN /\ limiter' = [limiter EXCEPT ![ip] = g.tat]
          /\ resp' = [method |-> method, path |-> "/dns-query",
                      key |-> "none", pkt |-> NoPacket, status |-> status]
          /\ metrics' = count_request(metrics, status)
    /\ UNCHANGED <<all_origins, zones, store, calls, query, sret,
                   inner, now, puts>>
    /\ UNCHANGED restvars

\* GET or POST /dns-query from a client: the route has no layer of its own,
\* the request goes to doh::get or doh::post.
DohQuery(ip, method, wellformed) ==
    /\ metrics.http_requests < MaxReqs
    /\ resp' = [method |-> method, path |-> "/dns-query", key |-> "none",
                pkt |-> NoPacket, status |-> doh_status(wellformed)]
    /\ metrics' = count_request(metrics, doh_status(wellformed))
    /\ UNCHANGED <<all_origins, zones, store, calls, query, sret,
                   inner, limiter, now, puts>>
    /\ UNCHANGED restvars

\* GET /healthcheck from a client: 200 "OK".
Healthcheck(ip) ==
    /\ metrics.http_requests < MaxReqs
    /\ resp' = [method |-> "GET", path |-> "/healthcheck", key |-> "none",
                pkt |-> NoPacket, status |-> "200"]
    /\ metrics' = count_request(metrics, "200")
    /\ UNCHANGED <<all_origins, zones, store, calls, query, sret,
                   inner, limiter, now, puts>>
    /\ UNCHANGED restvars

\* A second passes.
Tick ==
    /\ now < MaxTime
    /\ now' = now + 1
    /\ UNCHANGED <<all_origins, zones, store, calls, metrics, query, sret,
                   inner, limiter, puts, resp>>
    /\ UNCHANGED restvars

\* The bodies of the PUT requests: signed packets of the first key, a
\* packet whose signature does not verify, a packet of the second key, and
\* bytes that do not decode (NoPacket).
HttpPayloads ==
    { p \in [key : Keys, timestamp : 1..MaxTs,
             body : {"announce", "announce2", "wrongnode", "deep"},
             sig : BOOLEAN] :
        /\ p.sig \/ (p.body = "announce" /\ p.timestamp = 1)
        /\ p.body \in {"wrongnode", "deep"} => p.timestamp = 1
        /\ p.key = "k2" => (p.sig /\ p.body = "announce" /\ p.timestamp = 1) }
      \cup {NoPacket}

\* One client publishing and reading, all within a second.
NextHttp ==
    \/ \E key \in KeyLabels, payload \in HttpPayloads : Put("ip1", key, payload)
    \/ \E key \in KeyLabels : Get(key)

SpecHttp == Init /\ [][NextHttp]_vars

\* Several clients publishing at their own pace.
RatePayloads ==
    { p \in HttpPayloads :
        p = NoPacket \/ (p.body = "announce" /\ p.sig /\ p.key = "k1"
                                             /\ p.timestamp = 1) }

NextRate ==
    \/ \E ip \in IPs, payload \in RatePayloads : Put(ip, "z32k1", payload)
    \/ Tick

SpecRate == Init /\ [][NextRate]_vars

----------------------------------------------------------------------------
(* The HTTP front-end: properties *)

\* The request served last was a PUT that the rate limiter let through.
PutHandled ==
    /\ resp.method = "PUT"
    /\ puts # << >>
    /\ puts[Len(puts)].ok

\* The body of the PUT served last is a packet whose signature verifies
\* under the key of the path.
PutWellSigned ==
    /\ resp.pkt # NoPacket
    /\ resp.pkt.sig
    /\ resp.pkt.key = PublicKey_try_from(resp.key)

\* C16: GET /pkarr/:key answers 404 when the store has no row for the key
\* and otherwise 200 with the packet of the row.
C16_get_returns_stored_packet ==
    (resp.method = "GET" /\ PublicKey_try_from(resp.key) # NoKey) =>
        LET row == store[PublicKey_try_from(resp.key)] IN
        IF row = NoRow THEN resp.status = "404"
        ELSE resp.status = "200" /\ resp.pkt = row

\* C17: a well-signed PUT that follows an accepted PUT of the same key and
\* carries no larger timestamp is answered 204, changes neither the served
\* records nor zones nor the store, and counts one pkarr_publish_noop.
C17_stale_put_is_noop ==
    [][ ( /\ PutHandled /\ PutWellSigned /\ resp.status = "204"
          /\ Len(puts') = Len(puts) + 1
          /\ PutHandled' /\ PutWellSigned'
          /\ resp'.key = resp.key
          /\ from_pkarr_signed_packet(resp'.pkt).ok
          /\ resp'.pkt.timestamp <= resp.pkt.timestamp )
        => ( /\ resp'.status = "204"
             /\ inner' = inner /\ zones' = zones /\ store' = store
             /\ metrics'.pkarr_publish_noop = metrics.pkarr_publish_noop + 1 )
      ]_vars

\* C18: a PUT that reaches the handler with a path key that is no z32 key,
\* or with a body that does not decode or whose signature does not verify
\* under the path key, is answered 400 and leaves zones, the store and the
\* served records as they were.
C18_invalid_put_rejected ==
    [][ ( /\ Len(puts') = Len(puts) + 1
          /\ PutHandled'
          /\ ~PutWellSigned' )
        => ( /\ resp'.status = "400"
             /\ zones' = zones /\ store' = store /\ inner' = inner )
      ]_vars

\* A packet with a signature that does not verify was turned down after an
\* announce had been published.
C18_witness_bad_signature_after_publish ==
    /\ PutHandled
    /\ resp.status = "400"
    /\ resp.pkt # NoPacket
    /\ ~resp.pkt.sig
    /\ resp.pkt.key = PublicKey_try_from(resp.key)
    /\ inner # setup_authority(all_origins[1], DefaultSoaSerial)

\* C19: a well-signed PUT that reaches the handler is answered 204,
\* whatever records the packet carries.
C19_valid_put_accepted ==
    (PutHandled /\ PutWellSigned) => resp.status = "204"

\* The PUTs of a client from the i-th to the j-th request that were not
\* answered 429.
NotLimited(ip, i, j) ==
    { n \in i..j : puts[n].ip = ip /\ puts[n].ok }

----------------------------------------------------------------------------
(* Startup, name splitting and the order of zone and store in upsert_pkarr *)

\* C22: NodeAuthority::new succeeds whatever the rows of the store: rows
\* that fail to decode or to project are skipped and every other row is
\* loaded into zones.
C22_new_skips_failing_rows ==
    LET r == NodeAuthority_new(store) IN
    /\ r.ok
    /\ \A k \in Keys :
          (store[k] # NoRow /\ ~from_signed_packet_fails(store[k])) =>
             /\ r.zones[k].present
             /\ r.zones[k].timestamp = store[k].timestamp

\* C27: for a query R.z32(k).O the relative name handed to the zone lookup
\* is R, its labels in the order of the query, for R of any length; a record
\* set published under R is found by that query.
C27_relative_name_in_query_order ==
    \A q \in PkarrNames :
       LET s == split_and_parse_pkarr(LowerName(q.n), <<all_origins[q.i]>>)
       IN /\ s.ok
          /\ s.pkey = q.k
          /\ s.name = LowerName(q.r)
          /\ \A t \in {"TXT", "A"} :
                (/\ zones[q.k].present
                 /\ RrKey(q.r, t) \in DOMAIN zones[q.k].records) =>
                   resolve_pkarr(zones, s.pkey, s.name, t) # NoRecordSet

\* C28: in upsert_pkarr the store is written only by a call whose zone step
\* updated the zone, and after that step; a call whose zone step is a no-op
\* or an error ends without a store write; when store.upsert reports false
\* the call still returns updated = true and zones and store stay as they
\* are.
C28_store_written_only_after_zone_update ==
    [][ /\ \A c \in Calls :
             /\ (calls[c].pc # "store" /\ calls'[c].pc = "store") =>
                   /\ calls'[c].updated
                   /\ upsert_pkarr_zone(zones, calls'[c].pkt).result = "true"
                   /\ zones' = upsert_pkarr_zone(zones, calls'[c].pkt).zones
                   /\ store' = store
             /\ (calls[c].pc = "new" /\ calls'[c].pc = "done") =>
                   /\ ~calls'[c].updated
                   /\ calls'[c].wrote = "none"
                   /\ store' = store
             /\ (calls[c].wrote = "none" /\ calls'[c].wrote # "none") =>
                   /\ calls[c].pc = "store"
                   /\ calls[c].updated
             /\ (calls[c].wrote = "none" /\ calls'[c].wrote = "false") =>
                   /\ calls'[c].res = "ok_true"
                   /\ zones' = zones
                   /\ store' = store
        /\ store' # store =>
             \E c \in Calls : calls[c].pc = "store" /\ calls'[c].wrote = "true"
      ]_vars

\* C28 witness: a call whose store.upsert reported false has returned
\* updated = true, the zone of its key being the newer one of another call.
C28_witness_store_reported_false ==
    \E c \in Calls :
       /\ calls[c].wrote = "false"
       /\ calls[c].res = "ok_true"
       /\ zones[calls[c].pkt.key].timestamp > calls[c].pkt.timestamp
       /\ store[calls[c].pkt.key].timestamp > calls[c].pkt.timestamp

\* C29: once an upsert of packet p has returned Ok (the PUT is answered with
\* success), the store holds for p's key a packet with a timestamp not less
\* than p's, also when an earlier attempt of p failed at the store.
C29_acknowledged_packet_is_stored ==
    \A c \in Calls :
       (calls[c].pc = "done" /\ calls[c].res \in {"ok_true", "ok_false"}) =>
          /\ store[calls[c].pkt.key] # NoRow
          /\ store[calls[c].pkt.key].timestamp >= calls[c].pkt.timestamp

\* C30: an upsert_pkarr that has returned an error, from the projection or
\* from the store write, has left zones as before the call: when it is the
\* only call so far, no key has a zone.
C30_failed_upsert_leaves_zones ==
    \A c \in Calls :
       (/\ calls[c].res = "err"
        /\ \A d \in Calls \ {c} : calls[d].pc = "new") =>
          \A k \in Keys : ~zones[k].present

\* C21: update answers every DNS UPDATE message, signed or not, with NotImp,
\* and the step that answers it leaves the static zone, the pkarr zones and
\* the store as they were.
C21_update_not_implemented ==
    [][ (query.rtype # "UPDATE" /\ query'.rtype = "UPDATE") =>
           /\ query'.code = "NotImp"
           /\ zones' = zones
           /\ store' = store
           /\ all_origins' = all_origins
           /\ inner' = inner ]_vars

\* C21 witness: a signed update for a name of a key that has a zone and a
\* row in the store has been answered.
C21_witness_signed_update_on_published_key ==
    /\ query.rtype = "UPDATE"
    /\ query.source = "signed"
    /\ \E k \in Keys :
          /\ zones[k].present
          /\ store[k] # NoRow
          /\ EndsWith(query.name, <<to_z32(k)>> \o LowerName(all_origins[1]))

----------------------------------------------------------------------------
(* A node announce through a signed packet and back *)

\* The longest home_dns list of an announce.
MaxDns == 2

\* The entries of home_dns: any String, the empty one and ones with "=" or
\* a space in them included.
DnsEntries ==
    { <<"a">>, <<"b">>, << >>, <<"a", "=", "b">>, <<"a", " ", "b">> }

DnsLists == UNION { [1..n -> DnsEntries] : n \in 0..MaxDns }

\* The announces NodeAnnounce::new can build.
Announces ==
    [ok : {TRUE}, node_id : Keys, home_derp : Urls \cup {"none"},
     home_dns : DnsLists]

\* An announce and a signing key are chosen.
InitAnnounce ==
    /\ all_origins = DefaultOrigins
    /\ zones = [k \in Keys |-> NoZone]
    /\ store = [k \in Keys |-> NoRow]
    /\ calls = [c \in Calls |-> NewCall]
    /\ metrics = ZeroMetrics
    /\ query = NoQuery
    /\ sret = NoSret
    /\ HttpInit
    /\ MainIdle
    /\ announce \in { [stage |-> "new", an |-> an, key |-> k,
                       packet |-> NoPacket, back |-> NoAnnounce] :
                      an \in Announces, k \in Keys }
    /\ iter = NoIter
    /\ upd = NoUpd

\* an.into_pkarr_signed_packet(signing_key).
Encode ==
    /\ announce.stage = "new"
    /\ announce' = [announce EXCEPT
                      !.stage = "signed",
                      !.packet = into_pkarr_signed_packet(announce.an,
                                                          announce.key)]
    /\ UNCHANGED <<all_origins, zones, store, calls, metrics, query, sret>>
    /\ UNCHANGED httpvars
    /\ UNCHANGED <<mainvars, iter, upd>>

\* NodeAnnounce::from_pkarr_signed_packet(packet).
Decode ==
    /\ announce.stage = "signed"
    /\ announce' = [announce EXCEPT
                      !.stage = "decoded",
                      !.back = from_pkarr_signed_packet(announce.packet)]
    /\ UNCHANGED <<all_origins, zones, store, calls, metrics, query, sret>>
    /\ UNCHANGED httpvars
    /\ UNCHANGED <<mainvars, iter, upd>>

NextAnnounce ==
    \/ Encode
    \/ Decode

SpecAnnounce == InitAnnounce /\ [][NextAnnounce]_vars

\* C26: an announce signed by the key of its node id and read back from the
\* signed packet is read successfully and equals the announce, whatever its
\* home_derp and its home_dns list.
C26_announce_round_trip ==
    (announce.stage = "decoded" /\ announce.key = announce.an.node_id) =>
       /\ announce.back.ok
       /\ announce.back = announce.an

----------------------------------------------------------------------------
(* main: the tasks, the root cancellation token and the join loop *)

\* The configurations: the http listener, the https listener and the
\* metrics server, each configured or not.
MainConfigs == [http : BOOLEAN, https : BOOLEAN, metrics : BOOLEAN]

Spawned == [st |-> "spawned", res |-> "none"]

\* main after the tasks are spawned: http::serve and dns::serve always, the
\* metrics server when config.metrics_addr() is Some.
InitMain ==
    /\ all_origins = DefaultOrigins
    /\ zones = [k \in Keys |-> NoZone]
    /\ store = [k \in Keys |-> NoRow]
    /\ calls = [c \in Calls |-> NewCall]
    /\ metrics = ZeroMetrics
    /\ query = NoQuery
    /\ sret = NoSret
    /\ HttpInit
    /\ config \in MainConfigs
    /\ tasks = [t \in TaskNames |->
                  IF t = "metrics" /\ ~config.metrics THEN NoTask
                  ELSE Spawned]
    /\ listeners = [l \in ListenerNames |-> "none"]
    /\ sweeper = "none"
    /\ token = FALSE
    /\ final_res = "ok"
    /\ main_pc = "joining"
    /\ announce = NoRoundTrip
    /\ iter = NoIter
    /\ upd = NoUpd

\* http::serve up to its loop: it bails when neither listener is configured;
\* rate_limiting::create spawns the clean-up thread; the http listener is
\* spawned; the set-up of the https acceptor may fail, which drops the
\* JoinSet and with it the http listener; the https listener is spawned.
HttpServeStart(setup_ok) ==
    /\ tasks["http"].st = "spawned"
    /\ setup_ok \/ config.https
    /\ IF ~config.http /\ ~config.https
       THEN /\ tasks' = [tasks EXCEPT !["http"] =
                           [st |-> "done", res |-> "failed"]]
            /\ UNCHANGED <<listeners, sweeper>>
       ELSE /\ sweeper' = "running"
            /\ IF setup_ok
               THEN /\ listeners' = [l \in ListenerNames |->
                                       IF config[l] THEN "running" ELSE "none"]
                    /\ tasks' = [tasks EXCEPT !["http"].st = "running"]
               ELSE /\ listeners' = [listeners EXCEPT !["http"] =
                                       IF config.http THEN "aborted" ELSE "none"]
                    /\ tasks' = [tasks EXCEPT !["http"] =
                                   [st |-> "done", res |-> "failed"]]
    /\ UNCHANGED <<config, token, final_res, main_pc, announce, iter, upd>>
    /\ UNCHANGED <<all_origins, zones, store, calls, metrics, query, sret>>
    /\ UNCHANGED httpvars

\* A listener of http::serve ends with an I/O error (its address cannot be
\* bound, accepting fails).
ListenerFails(l) ==
    /\ tasks["http"].st = "running"
    /\ listeners[l] = "running"
    /\ listeners' = [listeners EXCEPT ![l] = "failed"]
    /\ UNCHANGED <<config, tasks, sweeper, token, final_res, main_pc, announce, iter, upd>>
    /\ UNCHANGED <<all_origins, zones, store, calls, metrics, query, sret>>
    /\ UNCHANGED httpvars

\* The loop of http::serve, the arm of cancel.cancelled(): abort_all.
HttpServeAbort ==
    /\ tasks["http"].st = "running"
    /\ token
    /\ \E l \in ListenerNames : listeners[l] = "running"
    /\ listeners' = [l \in ListenerNames |->
                       IF listeners[l] = "running" THEN "aborted"
                       ELSE listeners[l]]
    /\ UNCHANGED <<config, tasks, sweeper, token, final_res, main_pc, announce, iter, upd>>
    /\ UNCHANGED <<all_origins, zones, store, calls, metrics, query, sret>>
    /\ UNCHANGED httpvars

\* The loop of http::serve, the arm of tasks.join_next(): None breaks the
\* loop and serve returns Ok; a listener that ended is Some(res), and
\* `res??` returns its error, the JoinError of an aborted listener or the
\* I/O error of a failed one, dropping the listeners left.
HttpServeJoin ==
    /\ tasks["http"].st = "running"
    /\ IF \A l \in ListenerNames : listeners[l] \in {"none", "joined"}
       THEN /\ tasks' = [tasks EXCEPT !["http"] =
                           [st |-> "done", res |-> "ok"]]
            /\ UNCHANGED listeners
       ELSE \E l \in ListenerNames :
               /\ listeners[l] \in {"failed", "aborted"}
               /\ tasks' = [tasks EXCEPT !["http"] =
                              [st |-> "done",
                               res |-> IF listeners[l] = "failed"
                                       THEN "failed" ELSE "cancelled"]]
               /\ listeners' = [m \in ListenerNames |->
                                  IF m = l THEN "joined"
                                  ELSE IF listeners[m] = "running"
                                  THEN "aborted"
                                  ELSE listeners[m]]
    /\ UNCHANGED <<config, sweeper, token, final_res, main_pc, announce, iter, upd>>
    /\ UNCHANGED <<all_origins, zones, store, calls, metrics, query, sret>>
    /\ UNCHANGED httpvars

\* dns::serve up to its select: the UDP socket and the TCP listener are
\* bound, or the error of a bind is returned.
DnsServeStart(bind_ok) ==
    /\ tasks["dns"].st = "spawned"
    /\ tasks' = [tasks EXCEPT !["dns"] =
                   IF bind_ok THEN [st |-> "running", res |-> "none"]
                   ELSE [st |-> "done", res |-> "failed"]]
    /\ UNCHANGED <<config, listeners, sweeper, token, final_res, main_pc,
                   announce, iter, upd>>
    /\ UNCHANGED <<all_origins, zones, store, calls, metrics, query, sret>>
    /\ UNCHANGED httpvars

\* The select of dns::serve, the arm of token.cancelled(): Ok(()).
DnsServeCancelled ==
    /\ tasks["dns"].st = "running"
    /\ token
    /\ tasks' = [tasks EXCEPT !["dns"] = [st |-> "done", res |-> "ok"]]
    /\ UNCHANGED <<config, listeners, sweeper, token, final_res, main_pc,
                   announce, iter, upd>>
    /\ UNCHANGED <<all_origins, zones, store, calls, metrics, query, sret>>
    /\ UNCHANGED httpvars

\* The select of dns::serve, the arm of server.block_until_done(): the
\* tasks of the DNS server have ended by themselves; Ok(()).
DnsServeDone ==
    /\ tasks["dns"].st = "running"
    /\ tasks' = [tasks EXCEPT !["dns"] = [st |-> "done", res |-> "ok"]]
    /\ UNCHANGED <<config, listeners, sweeper, token, final_res, main_pc,
                   announce, iter, upd>>
    /\ UNCHANGED <<all_origins, zones, store, calls, metrics, query, sret>>
    /\ UNCHANGED httpvars

\* start_metrics_server(addr): it binds and serves, or returns the error of
\* the bind.  It takes no cancellation token and has no other way to end.
MetricsServe(bind_ok) ==
    /\ tasks["metrics"].st = "spawned"
    /\ tasks' = [tasks EXCEPT !["metrics"] =
                   IF bind_ok THEN [st |-> "running", res |-> "none"]
                   ELSE [st |-> "done", res |-> "failed"]]
    /\ UNCHANGED <<config, listeners, sweeper, token, final_res, main_pc,
                   announce, iter, upd>>
    /\ UNCHANGED <<all_origins, zones, store, calls, metrics, query, sret>>
    /\ UNCHANGED httpvars

\* main's loop, one tasks.join_next(): Ok(()) is logged; an error cancels
\* the root token and is kept in final_res when final_res is still Ok.
MainJoin(t) ==
    /\ main_pc = "joining"
    /\ tasks[t].st = "done"
    /\ tasks' = [tasks EXCEPT ![t].st = "joined"]
    /\ IF tasks[t].res = "ok"
       THEN UNCHANGED <<token, final_res>>
       ELSE /\ token' = TRUE
            /\ final_res' = IF final_res = "ok" THEN t ELSE final_res
    /\ UNCHANGED <<config, listeners, sweeper, main_pc, announce, iter, upd>>
    /\ UNCHANGED <<all_origins, zones, store, calls, metrics, query, sret>>
    /\ UNCHANGED httpvars

\* main's loop ends: join_next returns None when every task was joined, main
\* returns final_res, and the process ends with its threads.
MainReturn ==
    /\ main_pc = "joining"
    /\ \A t \in TaskNames : tasks[t].st \in {"none", "joined"}
    /\ main_pc' = "exited"
    /\ sweeper' = IF sweeper = "running" THEN "stopped" ELSE sweeper
    /\ UNCHANGED <<config, tasks, listeners, token, final_res, announce, iter, upd>>
    /\ UNCHANGED <<all_origins, zones, store, calls, metrics, query, sret>>
    /\ UNCHANGED httpvars

\* The owner of the token that http::serve and dns::serve were given
\* cancels it.
Cancel ==
    /\ main_pc = "joining"
    /\ ~token
    /\ token' = TRUE
    /\ UNCHANGED <<config, tasks, listeners, sweeper, final_res, main_pc,
                   announce, iter, upd>>
    /\ UNCHANGED <<all_origins, zones, store, calls, metrics, query, sret>>
    /\ UNCHANGED httpvars

\* The exit status of the process once main has returned.
ExitStatus == IF final_res = "ok" THEN 0 ELSE 1

NextMain ==
    \/ \E setup_ok \in BOOLEAN : HttpServeStart(setup_ok)
    \/ \E l \in ListenerNames : ListenerFails(l)
    \/ HttpServeAbort
    \/ HttpServeJoin
    \/ \E bind_ok \in BOOLEAN : DnsServeStart(bind_ok)
    \/ DnsServeCancelled
    \/ DnsServeDone
    \/ \E bind_ok \in BOOLEAN : MetricsServe(bind_ok)
    \/ \E t \in TaskNames : MainJoin(t)
    \/ MainReturn

SpecMain == InitMain /\ [][NextMain]_vars

\* The runtime schedules every task that can take a step and every ready
\* arm of a select; failures of sockets and the end of the DNS server's own
\* tasks are left to the environment.
FairSpecMain ==
    /\ SpecMain
    /\ WF_vars(\E setup_ok \in BOOLEAN : HttpServeStart(setup_ok))
    /\ WF_vars(HttpServeAbort)
    /\ WF_vars(HttpServeJoin)
    /\ WF_vars(\E bind_ok \in BOOLEAN : DnsServeStart(bind_ok))
    /\ WF_vars(DnsServeCancelled)
    /\ WF_vars(\E bind_ok \in BOOLEAN : MetricsServe(bind_ok))
    /\ WF_vars(\E t \in TaskNames : MainJoin(t))
    /\ WF_vars(MainReturn)

\* The functions serve under a caller that may cancel the token at any time.
NextServe ==
    \/ NextMain
    \/ Cancel

SpecServe == InitMain /\ [][NextServe]_vars

\* No task and no listener has ended with an error of its own.
NoTaskFailed ==
    /\ \A t \in TaskNames : tasks[t].res # "failed"
    /\ \A l \in ListenerNames : listeners[l] # "failed"

\* C23: once the root token is cancelled, every listener and task stops and
\* main's loop over the tasks ends.
C23_cancel_stops_every_task ==
    token ~> /\ main_pc = "exited"
             /\ \A t \in TaskNames : tasks[t].st \in {"none", "joined"}
             /\ \A l \in ListenerNames : listeners[l] # "running"
             /\ sweeper # "running"

\* C24: once a task has returned an error, main eventually returns, with an
\* error; and an error kept in final_res is never replaced.
C24_task_error_ends_main_with_first_error ==
    /\ (\E t \in TaskNames : tasks[t].st = "done" /\ tasks[t].res # "ok")
          ~> (main_pc = "exited" /\ final_res # "ok")
    /\ [][final_res # "ok" => final_res' = final_res]_vars

\* C25: when the token is cancelled and no task has failed, http::serve and
\* dns::serve return Ok, main records no error and the exit status is 0.
C25_cancellation_is_clean ==
    (token /\ NoTaskFailed) =>
       /\ \A t \in {"http", "dns"} :
             tasks[t].st \in {"done", "joined"} => tasks[t].res = "ok"
       /\ final_res = "ok"
       /\ main_pc = "exited" => ExitStatus = 0

----------------------------------------------------------------------------
(* Readers next to writers *)

\* The names a lookup can ask a zone for, relative to the key.
ZoneNames == RelNames \cup {<<"www">>, <<"x">>}

\* The names the readers ask for: every relative name under the first key
\* and the primary origin.
ReadNames ==
    { r \o <<to_z32("k1")>> \o DefaultOrigins[1] : r \in ZoneNames }

\* The packets the publishers of the first key send.
ReadPackets ==
    { p \in Packets : p.key = "k1" /\ p.sig /\ ParsesAsMessage(p.body) }

\* Publishers of one key and a DNS client: search takes the read lock of
\* zones between any two steps of the upserts, which take the write lock.
NextRead ==
    \/ \E c \in Calls, p \in ReadPackets : UpsertZone(c, p)
    \/ \E c \in Calls : UpsertStore(c)
    \/ \E n \in ReadNames, t \in RecordTypes : Search(n, t)

SpecRead == Init /\ [][NextRead]_vars

\* The answer a lookup of (name, type) builds from the zone of packet p
\* alone; NoRecordSet when p has no such record set.
AnswerFromPacket(p, name, record_type) ==
    LET s == split_and_parse_pkarr(name, all_origins)
        z == from_signed_packet(p)
        key == RrKey(s.name, record_type)
    IN IF s.ok /\ s.pkey = p.key /\ ~from_signed_packet_fails(p)
          /\ key \in DOMAIN z.records
       THEN record_set_append_origin(z.records[key],
                                     <<to_z32(p.key)>> \o s.origin, Serial)
       ELSE NoRecordSet

\* C31: an answer out of the pkarr zones is the record set of one packet
\* that an upsert accepted, whatever upserts run next to the lookup; and
\* the answer a reader holds is not changed by any later step.
C31_lookup_sees_one_packet ==
    /\ [](  (query.source = "pkarr" /\ query.code = "NoError") =>
               \E c \in Calls :
                  /\ calls[c].updated
                  /\ query.answer =
                        AnswerFromPacket(calls[c].pkt, query.name, query.rtype))
    /\ [][query # NoQuery => query' = query]_vars

\* C31 witness: a lookup answered while an upsert of the same key is between
\* its zone step and its store step, the key having an older packet of
\* another body with a record set of the same name and type.
C31_witness_lookup_during_upsert ==
    /\ query.source = "pkarr" /\ query.code = "NoError"
    /\ \E c1, c2 \in Calls :
          /\ c1 # c2
          /\ calls[c1].updated /\ calls[c1].pc = "done"
          /\ calls[c2].updated /\ calls[c2].pc = "store"
          /\ calls[c1].pkt.key = calls[c2].pkt.key
          /\ calls[c1].pkt.body # calls[c2].pkt.body
          /\ calls[c1].pkt.timestamp < calls[c2].pkt.timestamp
          /\ AnswerFromPacket(calls[c1].pkt, query.name, query.rtype)
                # NoRecordSet
          /\ query.answer =
                AnswerFromPacket(calls[c2].pkt, query.name, query.rtype)

----------------------------------------------------------------------------
(* Independence of keys *)

\* C32: a step of upsert_pkarr with a packet of key k leaves the zone and
\* the store row of every other key unchanged, and resolve_pkarr under
\* every other key returns the same answer before and after.
C32_upsert_leaves_other_keys ==
    [][\A c \in Calls :
         calls'[c] # calls[c] =>
           \A k \in Keys \ {calls'[c].pkt.key} :
              /\ zones'[k] = zones[k]
              /\ store'[k] = store[k]
              /\ \A n \in ZoneNames, t \in {"TXT", "A"} :
                    resolve_pkarr(zones', k, n, t) = resolve_pkarr(zones, k, n, t)]_vars

\* Both keys were published, one of them with a packet that names the other
\* key's zone in a record, and each zone and row is the one of its own call.
C32_witness_both_keys_published ==
    \E c, d \in Calls :
       /\ calls[c].pc = "done" /\ calls[c].res = "ok_true"
       /\ calls[d].pc = "done" /\ calls[d].res = "ok_true"
       /\ calls[c].pkt.key = "k1" /\ calls[c].pkt.body = "apex"
       /\ calls[d].pkt.key = "k2"
       /\ \E i \in DOMAIN Answers("apex", "k1") :
             Answers("apex", "k1")[i].name = <<"www", to_z32("k2")>>
       /\ zones["k1"] = from_signed_packet(calls[c].pkt)
       /\ zones["k2"] = from_signed_packet(calls[d].pkt)
       /\ store["k1"] = calls[c].pkt
       /\ store["k2"] = calls[d].pkt
       /\ resolve_pkarr(zones, "k2", <<"www">>, "A") = NoRecordSet

----------------------------------------------------------------------------
(* The publish metrics *)

PublishMetrics(m) ==
    m.pkarr_publish_update + m.pkarr_publish_noop + m.pkarr_publish_error

\* C33: every call of upsert_pkarr increments exactly one of the three
\* publish metrics by the time it returns: pkarr_publish_update when the
\* packet was accepted, pkarr_publish_noop when it was stale, and
\* pkarr_publish_error when a step failed, the store write included.
C33_one_publish_metric_per_call ==
    [][\A c \in Calls :
         (calls[c].pc # "done" /\ calls'[c].pc = "done") =>
            /\ PublishMetrics(metrics') = PublishMetrics(metrics) + 1
            /\ calls'[c].res = "ok_true" =>
                 metrics'.pkarr_publish_update = metrics.pkarr_publish_update + 1
            /\ calls'[c].res = "ok_false" =>
                 metrics'.pkarr_publish_noop = metrics.pkarr_publish_noop + 1
            /\ calls'[c].res = "err" =>
                 metrics'.pkarr_publish_error = metrics.pkarr_publish_error + 1]_vars

----------------------------------------------------------------------------
(* The records a zone holds *)

\* Whether the ingestion has to drop answer record a of a packet of key k.
Dropped(a, k) ==
    \/ a.rr_type \in {"SOA", "NS"}
    \/ a.name = << >>
    \/ Lower(a.name[Len(a.name)]) # to_z32(k)

\* Answer record a as a zone holds it: without the label of the key.
Stripped(a) == [a EXCEPT !.name = SubSeq(a.name, 1, Len(a.name) - 1)]

\* The records of every record set of zone z.
ZoneRecords(z) ==
    UNION { { z.records[rk].records[i] : i \in DOMAIN z.records[rk].records } :
            rk \in DOMAIN z.records }

\* The answer records of packet p that the ingestion keeps, and drops.
KeptOf(p) ==
    LET answers == Answers(p.body, p.key) IN
    { Stripped(answers[i]) :
        i \in { j \in DOMAIN answers : ~Dropped(answers[j], p.key) } }

DroppedOf(p) ==
    LET answers == Answers(p.body, p.key) IN
    { answers[i] : i \in { j \in DOMAIN answers : Dropped(answers[j], p.key) } }

----------------------------------------------------------------------------
(* Names outside the pkarr zones *)

\* The label of name n immediately above origin o.
LabelAbove(n, o) == n[Len(n) - Len(o)]

\* Whether name n has no key label to look up: no origin is a suffix of n
\* with a further label, or n is the apex of an origin, or the label above
\* the matched origin (the first in configuration order, or the longest)
\* does not decode as a key.
NoKeyLabel(n) ==
    LET m == MatchingOrigins(n) IN
    \/ m = {}
    \/ \E i \in DOMAIN all_origins : LowerName(all_origins[i]) = n
    \/ LET first == CHOOSE i \in m : \A j \in m : i <= j
           longest == CHOOSE i \in m :
                         \A j \in m : Len(all_origins[j]) <= Len(all_origins[i])
       IN \/ PublicKey_try_from(LabelAbove(n, all_origins[first])) = NoKey
          \/ PublicKey_try_from(LabelAbove(n, all_origins[longest])) = NoKey

\* C35: a query of a type other than SOA, NS and AXFR for a name without a
\* key label under an origin is answered with exactly the static zone's
\* answer for that name and type, and nothing of the pkarr zones.
C35_static_answer_without_key_label ==
    (/\ query # NoQuery
     /\ query.rtype \in QueryTypes \ {"SOA", "NS", "AXFR"}
     /\ NoKeyLabel(query.name))
       => /\ query.source = "static"
          /\ LET r == static_lookup(all_origins, query.name, query.rtype) IN
             /\ query.code = r.code
             /\ query.answer = r.answer

\* C35 witness: the apex of the primary origin is asked for its A record
\* while the first key has a zone with an A record: the static answer.
C35_witness_apex_query_with_zone ==
    /\ query.rtype = "A"
    /\ query.name = LowerName(all_origins[1])
    /\ NoKeyLabel(query.name)
    /\ query.source = "static"
    /\ query.code = "NoError"
    /\ zones["k1"].present
    /\ resolve_pkarr(zones, "k1", << >>, "A") # NoRecordSet

\* An undecodable label above the origin, the first key having a zone.
C35_witness_undecodable_label ==
    /\ query.rtype = "TXT"
    /\ query.name = LowerName(<<"www">> \o all_origins[1])
    /\ NoKeyLabel(query.name)
    /\ query.source = "static"
    /\ zones["k1"].present

----------------------------------------------------------------------------
(* Iterating over the store *)

\* The tables a database file can hold when the server opens it: for each
\* key no row, a signed packet, or bytes that are no signed packet.
IterTables ==
    { t \in [Keys -> Packets \cup {NoRow} \cup {CorruptRow(k) : k \in Keys}] :
        \A k \in Keys :
           t[k] # NoRow =>
              /\ t[k].key = k
              /\ t[k].body = "corrupt" \/ (t[k].sig /\ t[k].timestamp = 1) }

InitIter ==
    /\ all_origins = DefaultOrigins
    /\ zones = [k \in Keys |-> NoZone]
    /\ store \in IterTables
    /\ calls = [c \in Calls |-> NewCall]
    /\ metrics = ZeroMetrics
    /\ query = NoQuery
    /\ sret = NoSret
    /\ HttpInit
    /\ MainIdle
    /\ announce = NoRoundTrip
    /\ iter = NoIter
    /\ upd = NoUpd

\* SignedPacketStore::iter: begin_read takes the snapshot of the table and
\* the range over all its keys is opened.
IterBegin ==
    /\ iter.st = "none"
    /\ iter' = [st |-> "open", snap |-> store, pos |-> 0, items |-> << >>]
    /\ UNCHANGED <<all_origins, zones, store, calls, metrics, query, sret>>
    /\ UNCHANGED httpvars
    /\ UNCHANGED <<mainvars, announce, upd>>

\* One call of next() on the iterator: the closure maps the next row of the
\* range to Ok(packet) or to the error of from_bytes (NoPacket), and None
\* ends the iteration.
IterNext ==
    /\ iter.st = "open"
    /\ LET rows == store_iter(iter.snap) IN
       IF iter.pos < Len(rows)
       THEN iter' = [iter EXCEPT !.pos = @ + 1,
                                 !.items = Append(@, rows[iter.pos + 1])]
       ELSE iter' = [iter EXCEPT !.st = "done"]
    /\ UNCHANGED <<all_origins, zones, store, calls, metrics, query, sret>>
    /\ UNCHANGED httpvars
    /\ UNCHANGED <<mainvars, announce, upd>>

\* An iteration next to writers of the store.  upsert on a row that does not
\* decode returns the error of get_packet and writes nothing.
NextIter ==
    \/ IterBegin
    \/ IterNext
    \/ \E p \in Packets : store[p.key].body # "corrupt" /\ StoreUpsert(p)
    \/ \E k \in Keys : StoreRemove(k)

SpecIter == InitIter /\ [][NextIter]_vars

\* The keys of the rows of table t, in the order of the range.
RowKeys(t) == SelectSeq(KeyOrder, LAMBDA k : t[k] # NoRow)

\* C36: the items of an iteration are, one for one and in order, the rows of
\* the table as it was when the iteration began: the packet of a row that
\* decodes and an error for a row that does not, the rows after it
\* included; a finished iteration has an item for every such row, and a row
\* written after the beginning is not among them.
C36_iter_one_item_per_snapshot_row ==
    /\ [](iter.st # "none" =>
            LET keys == RowKeys(iter.snap) IN
            /\ Len(iter.items) <= Len(keys)
            /\ \A i \in DOMAIN iter.items :
                  iter.items[i] =
                     IF iter.snap[keys[i]].body = "corrupt" THEN NoPacket
                     ELSE iter.snap[keys[i]]
            /\ iter.st = "done" => Len(iter.items) = Len(keys))
    /\ [][/\ (iter.st = "none" /\ iter'.st # "none") => iter'.snap = store
          /\ iter.st # "none" => iter'.snap = iter.snap]_vars

\* C36 witness: a finished iteration over a table whose first row did not
\* decode and whose second did, the second row having been replaced and the
\* first removed after the iteration began.
C36_witness_error_item_then_packet ==
    /\ iter.st = "done"
    /\ Len(iter.items) = 2
    /\ iter.items[1] = NoPacket
    /\ iter.items[2] # NoPacket
    /\ iter.snap["k1"].body = "corrupt"
    /\ store["k1"] = NoRow
    /\ store["k2"] # iter.snap["k2"]
    /\ store["k2"] # NoRow

----------------------------------------------------------------------------
(* The routes of the HTTP server and the rate limit *)

\* The bodies of the PUT requests: those of RatePayloads and a later packet
\* of the first key with another announce.
RoutePayloads ==
    RatePayloads \cup
       { p \in HttpPayloads :
           p # NoPacket /\ p.body = "announce2" /\ p.key = "k1"
                        /\ p.timestamp = MaxTs }

\* Clients using every route, all within a second.
NextRoutes ==
    \/ \E ip \in IPs, payload \in RoutePayloads : Put(ip, "z32k1", payload)
    \/ \E key \in {"z32k1"} : Get(key)
    \/ \E ip \in IPs, method \in {"GET", "POST"}, wellformed \in BOOLEAN :
          DohQuery(ip, method, wellformed)
    \/ \E ip \in IPs : Healthcheck(ip)

SpecRoutes == Init /\ [][NextRoutes]_vars

\* The step serves a request other than a PUT.
OtherRequestServed ==
    /\ metrics'.http_requests = metrics.http_requests + 1
    /\ resp'.method # "PUT"

\* C37: a request other than PUT /pkarr/:key (GET /pkarr/:key, GET and POST
\* /dns-query, GET /healthcheck) is never answered 429, and serving it
\* leaves the rate limiter's state of every client as it was, so that the
\* next PUT of any client is decided as it would have been before.
C37_rate_limit_only_on_put ==
    /\ [](resp.method # "PUT" => resp.status # "429")
    /\ [][OtherRequestServed =>
            /\ limiter' = limiter
            /\ puts' = puts
            /\ \A ip \in IPs :
                  gcra_test_and_update(limiter'[ip], now')
                     = gcra_test_and_update(limiter[ip], now)]_vars

\* C37 witness: a client whose third PUT was answered 429 has a DNS query
\* over HTTPS answered 200 next.
C37_witness_query_after_limited_put ==
    /\ Len(puts) = 3
    /\ \A n \in 1..3 : puts[n].ip = "ip1"
    /\ ~puts[3].ok
    /\ ~gcra_test_and_update(limiter["ip1"], now).ok
    /\ resp.path = "/dns-query"
    /\ resp.method = "POST"
    /\ resp.status = "200"

\* C38: a PUT /pkarr/:key answered 429 by the rate limiter does not reach
\* the handler: zones, the store, the publish metrics and the records the
\* handler writes are as before the request, whatever packet it carried.
C38_limited_put_changes_nothing ==
    [][(Len(puts') = Len(puts) + 1 /\ resp'.status = "429") =>
          /\ zones' = zones
          /\ store' = store
          /\ inner' = inner
          /\ metrics'.pkarr_publish_update = metrics.pkarr_publish_update
          /\ metrics'.pkarr_publish_noop = metrics.pkarr_publish_noop
          /\ metrics'.pkarr_publish_error = metrics.pkarr_publish_error]_vars

\* C38 witness: after an accepted PUT of a packet, a PUT answered 429 that
\* carried a validly signed packet of the same key with a later timestamp
\* and another announce: the records are those of the first packet.
C38_witness_newer_packet_limited ==
    /\ Len(puts) = 3
    /\ ~puts[3].ok
    /\ resp.status = "429"
    /\ resp.pkt # NoPacket
    /\ resp.pkt.sig
    /\ resp.pkt.key = PublicKey_try_from(resp.key)
    /\ resp.pkt.body = "announce2"
    /\ resp.pkt.timestamp = 2
    /\ from_pkarr_signed_packet(resp.pkt).ok
    /\ LET first == [key |-> "k1", timestamp |-> 1, body |-> "announce",
                     sig |-> TRUE]
       IN /\ inner = insert_node_announce(
                        setup_authority(all_origins[1], DefaultSoaSerial),
                        all_origins, from_pkarr_signed_packet(first)).records
          /\ inner # insert_node_announce(
                        inner, all_origins,
                        from_pkarr_signed_packet(resp.pkt)).records

----------------------------------------------------------------------------
(* IrohAuthority::update: DNS UPDATE messages signed with SIG(0) *)

\* The number of UPDATE messages of a behaviour.
MaxUpdates == 2

\* The length in bytes of a label: a node id in base32 has 52 characters,
\* the labels of the long origin are as long as their names say.
LabelLen(l) ==
    CASE l \in {"b32k1", "b32k2"} -> 52
      [] l \in {"l63a", "l63b", "l63c"} -> 63
      [] l = "l10" -> 10
      [] l = "_iroh_node" -> 10
      [] OTHER -> 7

\* The length of a name as Name counts it: every label and its length byte.
RECURSIVE NameLen(_)
NameLen(n) == IF n = << >> THEN 0 ELSE LabelLen(Head(n)) + 1 + NameLen(Tail(n))

\* Name::append_name: Err(DomainNameTooLong) beyond 255 bytes.
NameTooLong(n) == NameLen(n) > 255

\* An origin under which <node id>.<origin> is no name any more.
LongOrigin == <<"l63a", "l63b", "l63c", "l10">>

\* parse_name_as_root_pubkey: the key of a fully qualified signer name of
\* one label, NoKey for an error.
parse_name_as_root_pubkey(name) ==
    IF ~name.fqdn \/ Len(name.labels) # 1 THEN NoKey
    ELSE NodeId_from_str(<<name.labels[1]>>)

\* verify_message: the signature over the message was made by the key.
verify_message(sig, public_key) == sig.by = public_key

\* verify_sig0: the key of the first SIG(0) record when its signature
\* verifies under the key its signer name holds, NoKey for an error.
verify_sig0(message) ==
    IF message.sig0 = << >> THEN NoKey
    ELSE
      LET sig == message.sig0[1]
          public_key == parse_name_as_root_pubkey(sig.signer_name)
      IN IF public_key = NoKey THEN NoKey
         ELSE IF verify_message(sig, public_key) THEN public_key
         ELSE NoKey

\* node_zone: <public key>.<origin>.
node_zone(public_key, origin) == <<NodeId_to_string(public_key)>> \o origin

\* Mutant of verify_all_in_zone: one record in the zone is enough.
verify_any_in_zone(zone, updates) ==
    \E i \in DOMAIN updates : zone_of(zone, updates[i].name)

\* verify_all_in_zone: every record's name is in the zone.
verify_all_in_zone(zone, updates) ==
    \A i \in DOMAIN updates : zone_of(zone, updates[i].name)

\* IrohAuthority::update_records: every record is upserted in turn.
RECURSIVE update_records(_, _, _, _)
update_records(records, updates, i, updated) ==
    IF i > Len(updates) THEN [records |-> records, updated |-> updated]
    ELSE LET r == InMemoryAuthority_upsert(records, updates[i],
                                           DefaultSoaSerial)
         IN update_records(r.records, updates, i + 1, updated \/ r.updated)

\* IrohAuthority::update: the records afterwards and the response code.
IrohAuthority_update(records, origin, message) ==
    LET public_key == verify_sig0(message) IN
    IF public_key = NoKey
    THEN [records |-> records, code |-> "BADSIG", updated |-> FALSE]
    ELSE IF NameTooLong(node_zone(public_key, origin))
    THEN [records |-> records, code |-> "FormErr", updated |-> FALSE]
    ELSE IF ~verify_all_in_zone(node_zone(public_key, origin), message.updates)
    THEN [records |-> records, code |-> "NotZone", updated |-> FALSE]
    ELSE LET r == update_records(records, message.updates, 1, FALSE)
         IN [records |-> r.records, code |-> "NoError", updated |-> r.updated]

\* The SIG(0) records of a message: none, or one whose signer name is a
\* node id, relative, of two labels or no node id, made by either key.
Sig0s ==
    {<< >>} \cup
    { <<[signer_name |-> [labels |-> l, fqdn |-> f], by |-> k]>> :
        l \in { <<"b32k1">>, <<"b32k2">>, <<"b32k1", "example">>, <<"www">> },
        f \in BOOLEAN, k \in Keys }

\* The records of an update under origin o: in the zone of the first node,
\* in the zone of the second, and at the apex of the origin.
UpdateRecords(o) ==
    { r \in { Rec(<<"_iroh_node", "b32k1">> \o o, "TXT", <<"u1">>, 30),
              Rec(<<"b32k1">> \o o, "A", "10.1.1.1", 30),
              Rec(<<"b32k2">> \o o, "A", "10.6.6.6", 30),
              Rec(o, "A", "10.6.6.6", 30) } : ~NameTooLong(r.name) }

UpdateRequests(o) ==
    { [sig0 |-> s, updates |-> u] :
        s \in Sig0s,
        u \in { <<r>> : r \in UpdateRecords(o) }
                \cup { <<r, q>> : r \in UpdateRecords(o), q \in UpdateRecords(o) } }

InitAuth ==
    /\ all_origins \in {DefaultOrigins, <<LongOrigin>>}
    /\ zones = [k \in Keys |-> NoZone]
    /\ store = [k \in Keys |-> NoRow]
    /\ calls = [c \in Calls |-> NewCall]
    /\ metrics = ZeroMetrics
    /\ query = NoQuery
    /\ sret = NoSret
    /\ HttpInit
    /\ MainIdle
    /\ announce = NoRoundTrip
    /\ iter = NoIter
    /\ upd = NoUpd

\* A DNS UPDATE message reaches IrohAuthority::update.
IrohUpdate(m) ==
    /\ upd.n < MaxUpdates
    /\ LET r == IrohAuthority_update(inner, all_origins[1], m) IN
       /\ inner' = r.records
       /\ upd' = [n |-> upd.n + 1, msg |-> m, code |-> r.code,
                  updated |-> r.updated]
    /\ UNCHANGED <<all_origins, zones, store, calls, metrics, query, sret,
                   limiter, now, puts, resp>>
    /\ UNCHANGED <<mainvars, announce, iter>>

NextAuth == \E m \in UpdateRequests(all_origins[1]) : IrohUpdate(m)

SpecAuth == InitAuth /\ [][NextAuth]_vars

\* The key that signed message m and is named by the signer name of its
\* SIG(0) record, NoKey when there is none.
SignerOf(m) ==
    IF /\ m.sig0 # << >>
       /\ m.sig0[1].signer_name.fqdn
       /\ \E k \in Keys : /\ m.sig0[1].signer_name.labels = <<NodeId_to_string(k)>>
                          /\ m.sig0[1].by = k
    THEN m.sig0[1].by
    ELSE NoKey

\* Every record of m lies in the zone <key>.<origin>, which is a name.
AllInZoneOf(m, k) ==
    LET zone == <<NodeId_to_string(k)>> \o all_origins[1] IN
    /\ NameLen(zone) <= 255
    /\ \A i \in DOMAIN m.updates :
          /\ Len(m.updates[i].name) >= Len(zone)
          /\ SubSeq(m.updates[i].name,
                    Len(m.updates[i].name) - Len(zone) + 1,
                    Len(m.updates[i].name)) = zone

\* C39: IrohAuthority::update changes records only for a message whose
\* SIG(0) verifies under the key of its signer name and whose records all
\* lie in the zone <key>.<origin>; any other message is answered BADSIG,
\* FormErr or NotZone and changes no record, one record outside the zone
\* being enough.
C39_update_needs_signature_and_zone ==
    [][upd'.n = upd.n + 1 =>
         LET m == upd'.msg
             k == SignerOf(m)
         IN IF k # NoKey /\ AllInZoneOf(m, k)
            THEN upd'.code = "NoError"
            ELSE /\ inner' = inner
                 /\ ~upd'.updated
                 /\ upd'.code \in {"BADSIG", "FormErr", "NotZone"}
                 /\ k = NoKey => upd'.code = "BADSIG"]_vars

\* C39 witness: after an update of the first node was applied, a message
\* signed by the first node with one record in its zone and one at the apex
\* of the origin is answered NotZone and none of its records is there.
C39_witness_one_record_outside ==
    /\ upd.n = 2
    /\ upd.code = "NotZone"
    /\ SignerOf(upd.msg) = "k1"
    /\ Len(upd.msg.updates) = 2
    /\ upd.msg.updates[1].name = <<"b32k1">> \o all_origins[1]
    /\ upd.msg.updates[2].name = all_origins[1]
    /\ RrKey(<<"b32k1">> \o all_origins[1], "A") \notin DOMAIN inner
    /\ RrKey(<<"_iroh_node", "b32k1">> \o all_origins[1], "TXT") \in DOMAIN inner
    /\ \A i \in DOMAIN inner[RrKey(all_origins[1], "A")].records :
          inner[RrKey(all_origins[1], "A")].records[i].rdata # "10.6.6.6"

\* A validly signed message under an origin too long for the node's zone.
C39_witness_zone_name_too_long ==
    /\ upd.code = "FormErr"
    /\ SignerOf(upd.msg) # NoKey

====
